---- MODULE Spec2Model ----
(***************************************************************************)
(* Model of the workflow execution engine (api/services/workflow):         *)
(* Engine.Execute, the node executors and the executor registry.           *)
(*                                                                         *)
(* Conventions                                                             *)
(*  - node ids and node type tags are TLA+ strings;                        *)
(*  - every other Go string (form values, city names, branch handles,      *)
(*    branch tokens, messages, error texts) is a sequence of tokens, a     *)
(*    token being a piece of text; fmt.Sprintf is concatenation;           *)
(*  - a Go `any` value is a record with a "kind" field;                    *)
(*  - numbers are fixed-point, in hundredths (2550 is 25.50);              *)
(*  - a pointer into wf.Nodes is the index of the node, 0 is nil;          *)
(*  - timestamps, durations and the random execution id are left out;      *)
(*  - the pc of an Execute call that has not been made yet is "idle".      *)
(***************************************************************************)
EXTENDS Integers, Sequences, FiniteSets, TLC

VARIABLES
    wf,        \* the *Workflow passed to Execute: [Nodes, Edges]
    registry,  \* the engine's Registry: type tag -> executor
    state,     \* the *ExecutionState: [FormData, Condition, Variables]
    pc,        \* "call", "loop" (at the loop condition), "after", "returned"
    current,   \* the node being executed, as an index into wf.Nodes
    stepNum,
    steps,
    results,   \* the returned *ExecutionResults
    err,       \* the returned error
    execErr,   \* the error the last handler call returned
    invoked,   \* history: the nodes whose handler was invoked, in order
    lookups,   \* history: number of calls of the weather client
    broke,     \* history: the loop was left by its break statement
    answers,   \* history: what the weather client returned, call by call
    initial,   \* history: the definition and the state Execute was called with
    hpc,       \* position of the HTTP handler serving the request
    req,       \* the HTTP request
    repo,      \* what the WorkflowRepo answers to Get
    resp,      \* the HTTP response written
    consulted, \* history: the collaborators the handler called, in order
    parked,    \* the Execute calls of the other goroutines
    active,    \* the goroutine that is running
    calls,     \* history: the coordinates the weather client was called with
    db,        \* the database behind the Repository
    seeded     \* history: what each call of Repository.Seed returned

vars == <<wf, registry, state, pc, current, stepNum, steps, results, err,
          execErr, invoked, lookups, broke, answers, initial, hpc, req, repo,
          resp, consulted, parked, active, calls, db, seeded>>

\* what no step of Engine.Execute touches: the caller's side
outer == <<initial, hpc, req, repo, resp, consulted, parked, active, db, seeded>>

\* engine.go: const maxSteps = 100
maxSteps == 100

\* Bounds of the model: chains of 1..MaxShortChain nodes, and chains of
\* maxSteps - MaxChainAround .. maxSteps + MaxChainAround nodes.
MaxShortChain == 3
MaxChainAround == 1

\* Temperatures and thresholds of the condition runs: every value from
\* -MaxHundredth to MaxHundredth hundredths.
MaxHundredth == 16

\* Seed is called at most MaxSeeds times, and NOW() takes the values 0..MaxClock
MaxSeeds == 3
MaxClock == 3

----------------------------------------------------------------------------
(* Go values *)

Nil == [kind |-> "nil"]
Str(s) == [kind |-> "string", s |-> s]
F64(h) == [kind |-> "float64", n |-> h]
IntV(h) == [kind |-> "int", n |-> h]

\* a nil map[string]any
NilMap == [nil |-> TRUE]

\* m[k] on a Go map: the zero value (nil interface) when the key is absent
MapGet(m, k) == IF m # NilMap /\ k \in DOMAIN m THEN m[k] ELSE Nil
MapHas(m, k) == m # NilMap /\ k \in DOMAIN m
\* m[k] = v that leaves an entry the map already has as it is
MapPut_KeepsOld(m, k, v) ==
    [x \in (DOMAIN m) \cup {k} |-> IF x \in DOMAIN m THEN m[x] ELSE v]

MapPut(m, k, v) == [x \in (DOMAIN m) \cup {k} |-> IF x = k THEN v ELSE m[x]]

\* v.(string) with the comma-ok form: the string, or "" when v is no string
AsString(v) == IF v.kind = "string" THEN v.s ELSE <<>>
IsString(v) == v.kind = "string"

\* strings.TrimSpace on a token sequence: leading and trailing blanks go
RECURSIVE TrimLeft(_)
TrimLeft(s) == IF s # <<>> /\ Head(s) = " " THEN TrimLeft(Tail(s)) ELSE s

RECURSIVE TrimRight(_)
TrimRight(s) ==
    IF s # <<>> /\ s[Len(s)] = " " THEN TrimRight(SubSeq(s, 1, Len(s) - 1)) ELSE s

TrimSpace(s) == TrimRight(TrimLeft(s))

\* case folding of one token
Fold(c) ==
    CASE c = "S" -> "s"
      [] c = "P" -> "p"
      [] c = "Sydney" -> "sydney"
      [] c = "SYDNEY" -> "sydney"
      [] c = "Perth" -> "perth"
      [] OTHER -> c

\* strings.EqualFold
EqualFold(a, b) ==
    /\ Len(a) = Len(b)
    /\ \A i \in 1..Len(a) : Fold(a[i]) = Fold(b[i])

\* toFloat64: float64, float32, int, int64 convert, everything else does not
\* toFloat64 that drops the decimals of the number
toFloat64_Truncates(v) ==
    IF v.kind \in {"float64", "float32", "int", "int64"}
    THEN [ok |-> TRUE, n |-> (v.n \div 100) * 100]
    ELSE [ok |-> FALSE, n |-> 0]

\* toFloat64 that takes every value that is no number for 0
toFloat64_Lenient(v) ==
    IF v.kind \in {"float64", "float32", "int", "int64"}
    THEN [ok |-> TRUE, n |-> v.n]
    ELSE [ok |-> TRUE, n |-> 0]

toFloat64(v) ==
    IF v.kind \in {"float64", "float32", "int", "int64"}
    THEN [ok |-> TRUE, n |-> v.n]
    ELSE [ok |-> FALSE, n |-> 0]

\* rounding that takes a half towards plus infinity
Round1_HalfUp(h) == (h + 5) \div 10

\* rounding to whole numbers, given in tenths
Round1_ToUnits(h) ==
    10 * (IF h >= 0 THEN (h + 50) \div 100 ELSE 0 - ((0 - h + 50) \div 100))

\* math.Round(x*10)/10 on hundredths: to tenths, half away from zero
Round1(h) == IF h >= 0 THEN (h + 5) \div 10 ELSE 0 - ((0 - h + 5) \div 10)

\* fmt.Sprintf("%.1f", x): one decimal. Exact for every value whose second
\* decimal is not 5 (the values used here); on such a tie Go rounds the
\* binary value of x, which hundredths do not determine.
Fmt1(h) ==
    LET r == Round1(h)
        a == IF r < 0 THEN 0 - r ELSE r
    IN  (IF r < 0 THEN <<"-">> ELSE <<>>)
        \o <<ToString(a \div 10), ".", ToString(a % 10)>>

----------------------------------------------------------------------------
(* Node executors.  Each returns                                           *)
(*   failed : the executor returned an error                               *)
(*   error  : the error text                                               *)
(*   status, output : the fields of the StepResult the engine reads        *)
(*   state  : the ExecutionState after the call                            *)
(*   lookup : the weather client was called                                *)

\* Failure that reports the error in the result but not as a failure
Failure_Swallowed(e, st, called) ==
    [failed |-> FALSE, error |-> e, status |-> "completed", output |-> NilMap,
     state |-> st, lookup |-> called]

\* Failure of a handler that stored the lookup's zero temperature before it
\* looked at the lookup's error
Failure_StoresLookup(e, st, called) ==
    [failed |-> TRUE, error |-> e, status |-> "", output |-> NilMap,
     state |-> IF called
               THEN [st EXCEPT !.Variables = MapPut(@, "temperature", F64(0))]
               ELSE st,
     lookup |-> called]

Failure(e, st, called) ==
    [failed |-> TRUE, error |-> e, status |-> "", output |-> NilMap,
     state |-> st, lookup |-> called]

Success(out, st, called) ==
    [failed |-> FALSE, error |-> <<>>, status |-> "completed",
     output |-> out, state |-> st, lookup |-> called]

StartExecutor(node, st) ==
    Success([message |-> Str(<<"Workflow execution started">>)], st, FALSE)

FormFields == <<"name", "email", "city">>

\* the error of the first field of FormFields[i..] that fails, <<>> if none
\* FormCheck comparing the string with "" without trimming it first
FormCheck_NoTrim(fd, i) ==
    LET bad == {j \in i..Len(FormFields) :
                   \/ ~MapHas(fd, FormFields[j])
                   \/ ~IsString(MapGet(fd, FormFields[j]))
                   \/ AsString(MapGet(fd, FormFields[j])) = <<>>}
    IN  IF bad = {} THEN <<>>
        ELSE LET field == FormFields[CHOOSE j \in bad : \A k \in bad : j <= k]
             IN  IF ~MapHas(fd, field)
                 THEN <<"missing required field: ", field>>
                 ELSE <<"field ", field, " must be a non-empty string">>

RECURSIVE FormCheck(_, _)
FormCheck(fd, i) ==
    IF i > Len(FormFields) THEN <<>>
    ELSE LET field == FormFields[i]
             val == MapGet(fd, field)
         IN  IF ~MapHas(fd, field)
             THEN <<"missing required field: ", field>>
             ELSE IF ~IsString(val) \/ TrimSpace(AsString(val)) = <<>>
             THEN <<"field ", field, " must be a non-empty string">>
             ELSE FormCheck(fd, i + 1)

FormExecutor(node, st) ==
    LET e == FormCheck(st.FormData, 1)
    IN  IF e # <<>> THEN Failure(e, st, FALSE)
        ELSE Success([message |-> Str(<<"Collected user input for ">>
                                      \o AsString(MapGet(st.FormData, "name"))),
                      formData |-> [kind |-> "map", m |-> st.FormData]],
                     st, FALSE)

\* node.Data.Metadata["options"].([]any)
OptionsOf(node) ==
    LET v == MapGet(node.Metadata, "options")
    IN  IF v.kind = "list" THEN v.items ELSE <<>>

\* the loop's test on one option: a map whose "city" folds to the form's city
OptionMatches(opt, city) ==
    /\ opt.kind = "map"
    /\ EqualFold(AsString(MapGet(opt.m, "city")), city)

\* index of the first matching option from i on, 0 if there is none
\* FirstMatch taking the last matching option
FirstMatch_Last(options, city, i) ==
    LET m == {k \in i..Len(options) : OptionMatches(options[k], city)}
    IN  IF m = {} THEN 0 ELSE CHOOSE k \in m : \A j \in m : j <= k

RECURSIVE FirstMatch(_, _, _)
FirstMatch(options, city, i) ==
    IF i > Len(options) THEN 0
    ELSE IF OptionMatches(options[i], city) THEN i
    ELSE FirstMatch(options, city, i + 1)

\* answer is what client.GetTemperature returns if it is called
IntegrationExecutor(node, st, answer) ==
    LET city == AsString(MapGet(st.FormData, "city"))
        options == OptionsOf(node)
        k == FirstMatch(options, city, 1)
    IN  IF k = 0
        THEN Failure(<<"city ">> \o city \o <<" not found in available options">>,
                     st, FALSE)
        ELSE LET m == options[k].m
                 lat == toFloat64(MapGet(m, "lat"))
                 lon == toFloat64(MapGet(m, "lon"))
             IN  IF ~lat.ok \/ ~lon.ok
                 THEN Failure(<<"invalid coordinates for city ">> \o city, st, FALSE)
                 ELSE IF ~answer.ok
                 THEN [lat |-> lat.n, lon |-> lon.n]
                      @@ Failure(<<"weather API error: ">> \o answer.error, st, TRUE)
                 ELSE [lat |-> lat.n, lon |-> lon.n] @@ Success(
                        [message |-> Str(<<"Current temperature in ">> \o city
                                         \o <<": ">> \o Fmt1(answer.n) \o <<"C">>),
                         temperature |-> F64(answer.n),
                         location |-> Str(city),
                         apiResponse |->
                            [kind |-> "map",
                             m |-> [endpoint |-> Str(AsString(MapGet(node.Metadata, "apiEndpoint"))),
                                    method |-> Str(<<"GET">>),
                                    statusCode |-> IntV(20000),
                                    data |-> [kind |-> "map",
                                              m |-> [temperature |-> F64(answer.n)]]]]],
                        [st EXCEPT !.Variables =
                            MapPut(st.Variables, "temperature", F64(answer.n))],
                        TRUE)

Operators ==
    {"greater_than", "less_than", "equals",
     "greater_than_or_equal", "less_than_or_equal"}

\* evaluateCondition whose default case is true
evaluateCondition_DefaultTrue(temperature, operator, threshold) ==
    LET t == Round1(temperature)
        th == Round1(threshold)
    IN  CASE operator = "greater_than" -> t > th
          [] operator = "less_than" -> t < th
          [] operator = "equals" -> t = th
          [] operator = "greater_than_or_equal" -> t >= th
          [] operator = "less_than_or_equal" -> t <= th
          [] OTHER -> TRUE

evaluateCondition(temperature, operator, threshold) ==
    LET t == Round1(temperature)
        th == Round1(threshold)
    IN  CASE operator = "greater_than" -> t > th
          [] operator = "less_than" -> t < th
          [] operator = "equals" -> t = th
          [] operator = "greater_than_or_equal" -> t >= th
          [] operator = "less_than_or_equal" -> t <= th
          [] OTHER -> FALSE

operatorSymbol(op) ==
    CASE op = "greater_than" -> ">"
      [] op = "less_than" -> "<"
      [] op = "equals" -> "="
      [] op = "greater_than_or_equal" -> ">="
      [] op = "less_than_or_equal" -> "<="
      [] OTHER -> "?"

operatorLabel(op) ==
    CASE op = "greater_than" -> "greater than"
      [] op = "less_than" -> "less than"
      [] op = "equals" -> "equal to"
      [] op = "greater_than_or_equal" -> "greater than or equal to"
      [] op = "less_than_or_equal" -> "less than or equal to"
      [] OTHER -> op

BoolV(b) == [kind |-> "bool", b |-> b]

ConditionExecutor(node, st) ==
    IF ~MapHas(st.Variables, "temperature")
    THEN Failure(<<"temperature variable not set">>, st, FALSE)
    ELSE
    LET temp == toFloat64(MapGet(st.Variables, "temperature"))
    IN  IF ~temp.ok
        THEN Failure(<<"temperature is not a number">>, st, FALSE)
        ELSE
        LET operator == st.Condition.Operator
            threshold == st.Condition.Threshold
            result == evaluateCondition(temp.n, operator, threshold)
            token == IF result THEN <<"true">> ELSE <<"false">>
            expression == Fmt1(temp.n) \o <<" ", operatorSymbol(operator), " ">>
                          \o Fmt1(threshold)
            message ==
                IF result
                THEN <<"Temperature ">> \o Fmt1(temp.n) \o <<"C is ">>
                     \o <<operatorLabel(operator), " ">> \o Fmt1(threshold)
                     \o <<"C - condition met">>
                ELSE <<"Temperature ">> \o Fmt1(temp.n) \o <<"C is not ">>
                     \o <<operatorLabel(operator), " ">> \o Fmt1(threshold)
                     \o <<"C - condition not met">>
        IN  Success(
              [message |-> Str(message),
               conditionMet |-> BoolV(result),
               conditionResult |->
                  [kind |-> "map",
                   m |-> [expression |-> Str(expression),
                          result |-> BoolV(result),
                          temperature |-> F64(temp.n),
                          operator |-> Str(<<operator>>),
                          threshold |-> F64(threshold)]]],
              [st EXCEPT !.Variables =
                  MapPut(st.Variables, "conditionResult", Str(token))],
              FALSE)

\* strings.NewReplacer(...).Replace on a token sequence: the placeholders
\* are single tokens
RECURSIVE Replace(_, _, _, _)
Replace(s, name, city, temp) ==
    IF s = <<>> THEN <<>>
    ELSE (CASE Head(s) = "{{name}}" -> name
            [] Head(s) = "{{city}}" -> city
            [] Head(s) = "{{temperature}}" -> temp
            [] OTHER -> <<Head(s)>>)
         \o Replace(Tail(s), name, city, temp)

\* EmailExecutor that fails when the accumulator holds no float64 temperature
EmailExecutor_NeedsTemperature(node, st) ==
    LET name == AsString(MapGet(st.FormData, "name"))
        email == AsString(MapGet(st.FormData, "email"))
        city == AsString(MapGet(st.FormData, "city"))
        tv == MapGet(st.Variables, "temperature")
        temperature == IF tv.kind = "float64" THEN tv.n ELSE 0
        tm == MapGet(node.Metadata, "emailTemplate")
        tmpl == IF tm.kind = "map" THEN tm.m ELSE NilMap
        subject == Replace(AsString(MapGet(tmpl, "subject")), name, city,
                           Fmt1(temperature))
        body == Replace(AsString(MapGet(tmpl, "body")), name, city,
                        Fmt1(temperature))
    IN  IF tv.kind # "float64"
        THEN Failure(<<"temperature variable not set">>, st, FALSE)
        ELSE Success(
          [message |-> Str(<<"Weather alert email drafted for ">> \o email),
           emailDraft |->
              [kind |-> "map",
               m |-> [to |-> Str(email),
                      from |-> Str(<<"weather-alerts@example.com">>),
                      subject |-> Str(subject),
                      body |-> Str(body)]],
           emailContent |->
              [kind |-> "map",
               m |-> [to |-> Str(email), subject |-> Str(subject),
                      body |-> Str(body)]],
           emailSent |-> BoolV(TRUE)],
          st, FALSE)

EmailExecutor(node, st) ==
    LET name == AsString(MapGet(st.FormData, "name"))
        email == AsString(MapGet(st.FormData, "email"))
        city == AsString(MapGet(st.FormData, "city"))
        tv == MapGet(st.Variables, "temperature")
        temperature == IF tv.kind = "float64" THEN tv.n ELSE 0
        tm == MapGet(node.Metadata, "emailTemplate")
        tmpl == IF tm.kind = "map" THEN tm.m ELSE NilMap
        subject == Replace(AsString(MapGet(tmpl, "subject")), name, city,
                           Fmt1(temperature))
        body == Replace(AsString(MapGet(tmpl, "body")), name, city,
                        Fmt1(temperature))
    IN  Success(
          [message |-> Str(<<"Weather alert email drafted for ">> \o email),
           emailDraft |->
              [kind |-> "map",
               m |-> [to |-> Str(email),
                      from |-> Str(<<"weather-alerts@example.com">>),
                      subject |-> Str(subject),
                      body |-> Str(body)]],
           emailContent |->
              [kind |-> "map",
               m |-> [to |-> Str(email), subject |-> Str(subject),
                      body |-> Str(body)]],
           emailSent |-> BoolV(TRUE)],
          st, FALSE)

\* EndExecutor that marks the accumulator as done
EndExecutor_MarksDone(node, st) ==
    Success([message |-> Str(<<"Workflow execution completed">>)],
            [st EXCEPT !.Variables = MapPut(@, "done", [kind |-> "bool", b |-> TRUE])],
            FALSE)

EndExecutor(node, st) ==
    Success([message |-> Str(<<"Workflow execution completed">>)], st, FALSE)

\* NewRegistry without the entry for "email"
NewRegistry_NoEmail ==
    [start |-> "StartExecutor", form |-> "FormExecutor",
     integration |-> "IntegrationExecutor", condition |-> "ConditionExecutor",
     end |-> "EndExecutor"]

\* NewRegistry: type tag -> executor
NewRegistry ==
    [start |-> "StartExecutor", form |-> "FormExecutor",
     integration |-> "IntegrationExecutor", condition |-> "ConditionExecutor",
     email |-> "EmailExecutor", end |-> "EndExecutor"]

\* executor.Execute(ctx, *current, state), by executor
Run(executor, node, st, answer) ==
    CASE executor = "StartExecutor" -> StartExecutor(node, st)
      [] executor = "FormExecutor" -> FormExecutor(node, st)
      [] executor = "IntegrationExecutor" -> IntegrationExecutor(node, st, answer)
      [] executor = "ConditionExecutor" -> ConditionExecutor(node, st)
      [] executor = "EmailExecutor" -> EmailExecutor(node, st)
      [] executor = "EndExecutor" -> EndExecutor(node, st)

----------------------------------------------------------------------------
(* Definitions and inputs the runs are started with *)

Node(id, type, metadata) ==
    [ID |-> id, Type |-> type, Label |-> id, Metadata |-> metadata]

Edge(id, source, target, handle) ==
    [ID |-> id, Source |-> source, Target |-> target, SourceHandle |-> handle]

Graph(nodes, edges) == [Nodes |-> nodes, Edges |-> edges]

SydneyOptions ==
    [kind |-> "list",
     items |-> <<[kind |-> "map",
                  m |-> [city |-> Str(<<"Sydney">>), lat |-> F64(-3387),
                         lon |-> F64(15121)]]>>]

WeatherMetadata ==
    [apiEndpoint |-> Str(<<"https://api.open-meteo.com/v1/forecast">>),
     options |-> SydneyOptions]

EmailMetadata ==
    [emailTemplate |->
        [kind |-> "map",
         m |-> [subject |-> Str(<<"Weather Alert">>),
                body |-> Str(<<"Alert for ", "{{city}}", "! Temp: ",
                               "{{temperature}}", "C!">>)]]]

ReferenceNodes(emailType) ==
    <<Node("start", "start", NilMap),
      Node("form", "form", NilMap),
      Node("weather-api", "integration", WeatherMetadata),
      Node("condition", "condition", NilMap),
      Node("email", emailType, EmailMetadata),
      Node("end", "end", NilMap)>>

ReferenceEdges(trueTarget) ==
    <<Edge("e1", "start", "form", <<>>),
      Edge("e2", "form", "weather-api", <<>>),
      Edge("e3", "weather-api", "condition", <<>>),
      Edge("e4", "condition", trueTarget, <<"true">>),
      Edge("e5", "condition", "end", <<"false">>),
      Edge("e6", "email", "end", <<>>)>>

\* testWorkflow(): start->form->integration->condition->{true: email->end, false: end}
ReferenceGraph == Graph(ReferenceNodes("email"), ReferenceEdges("email"))

\* the reference graph whose "true" edge leads to no node
DanglingTrueGraph == Graph(ReferenceNodes("email"), ReferenceEdges("ghost"))

\* the reference graph whose "true" edge has an empty target
EmptyTrueGraph == Graph(ReferenceNodes("email"), ReferenceEdges(""))

\* the reference graph without its "false" edge
NoFalseEdgeGraph ==
    Graph(ReferenceNodes("email"),
          SelectSeq(ReferenceEdges("email"), LAMBDA e : e.ID # "e5"))

\* the reference graph whose fifth node has a type nobody registered
WebhookGraph == Graph(ReferenceNodes("webhook"), ReferenceEdges("email"))

\* a condition node right after start
EarlyConditionGraph ==
    Graph(<<Node("start", "start", NilMap), Node("condition", "condition", NilMap),
            Node("end", "end", NilMap)>>,
          <<Edge("e1", "start", "condition", <<>>),
            Edge("e2", "condition", "ghost", <<"false">>),
            Edge("e3", "condition", "end", <<"true">>),
            Edge("e4", "condition", "end", <<"false">>)>>)

BranchGraphs ==
    {ReferenceGraph, DanglingTrueGraph, EmptyTrueGraph, NoFalseEdgeGraph,
     WebhookGraph, EarlyConditionGraph}

\* graphs without a node of type start
NoStartGraphs ==
    {Graph(<<>>, <<>>),
     Graph(<<Node("end", "end", NilMap)>>, <<>>),
     Graph(<<Node("form", "form", NilMap), Node("end", "end", NilMap)>>,
           <<Edge("e1", "form", "end", <<>>)>>)}

\* TestEngine_CycleProtection: a -> b -> a, and a self loop
CyclicGraphs ==
    {Graph(<<Node("a", "start", NilMap), Node("b", "start", NilMap)>>,
           <<Edge("e1", "a", "b", <<>>), Edge("e2", "b", "a", <<>>)>>),
     Graph(<<Node("a", "start", NilMap)>>, <<Edge("e1", "a", "a", <<>>)>>)}

\* TestEngine_UnknownNodeType
UnknownTypeGraph ==
    Graph(<<Node("start", "start", NilMap), Node("unknown", "webhook", NilMap)>>,
          <<Edge("e1", "start", "unknown", <<>>)>>)

\* a start node with two outgoing edges, the first or the second dangling
TwoEdgeGraphs ==
    {Graph(<<Node("start", "start", NilMap), Node("end", "end", NilMap)>>,
           <<Edge("e1", "start", t1, <<>>), Edge("e2", "start", t2, <<>>)>>) :
        <<t1, t2>> \in {<<"ghost", "end">>, <<"end", "ghost">>, <<"", "end">>}}

ChainLengths ==
    (1..MaxShortChain)
    \cup ((maxSteps - MaxChainAround)..(maxSteps + MaxChainAround))

\* 1 -> 2 -> ... -> n: node 1 of type start, the last node of type lastType,
\* the others of type end; tail is the target of an edge leaving the last
\* node ("none": no such edge)
Chain(n, lastType, tail) ==
    Graph([i \in 1..n |->
              Node(ToString(i),
                   IF i = 1 THEN "start" ELSE IF i = n THEN lastType ELSE "end",
                   NilMap)],
          [i \in 1..(n - 1) |->
              Edge(ToString(i), ToString(i), ToString(i + 1), <<>>)]
          \o (IF tail = "none" THEN <<>>
              ELSE <<Edge("tail", ToString(n),
                          IF tail = "empty" THEN "" ELSE tail,
                          IF lastType = "condition" THEN <<"true">> ELSE <<>>)>>))

ChainGraphs ==
    {Chain(n, lastType, tail) :
        n \in ChainLengths, lastType \in {"end", "webhook", "condition"},
        tail \in {"none", "ghost", "empty"}}

StructuralGraphs ==
    NoStartGraphs \cup CyclicGraphs \cup {UnknownTypeGraph} \cup TwoEdgeGraphs
    \cup ChainGraphs

\* start -> weather-1 -> check-1 -> weather-2 -> check-2 -> email -> end: two
\* lookups, each followed by a condition node whose two branches lead on
TwoLookupGraph ==
    Graph(<<Node("start", "start", NilMap),
            Node("weather-1", "integration", WeatherMetadata),
            Node("check-1", "condition", NilMap),
            Node("weather-2", "integration", WeatherMetadata),
            Node("check-2", "condition", NilMap),
            Node("email", "email", EmailMetadata),
            Node("end", "end", NilMap)>>,
          <<Edge("e1", "start", "weather-1", <<>>),
            Edge("e2", "weather-1", "check-1", <<>>),
            Edge("e3", "check-1", "weather-2", <<"true">>),
            Edge("e4", "check-1", "weather-2", <<"false">>),
            Edge("e5", "weather-2", "check-2", <<>>),
            Edge("e6", "check-2", "email", <<"true">>),
            Edge("e7", "check-2", "email", <<"false">>),
            Edge("e8", "email", "end", <<>>)>>)

\* start -> email-1 -> weather -> email-2 -> check -> end: an email before
\* and after the lookup
EarlyEmailGraph ==
    Graph(<<Node("start", "start", NilMap),
            Node("email-1", "email", EmailMetadata),
            Node("weather", "integration", WeatherMetadata),
            Node("email-2", "email", EmailMetadata),
            Node("check", "condition", NilMap),
            Node("end", "end", NilMap)>>,
          <<Edge("e1", "start", "email-1", <<>>),
            Edge("e2", "email-1", "weather", <<>>),
            Edge("e3", "weather", "email-2", <<>>),
            Edge("e4", "email-2", "check", <<>>),
            Edge("e5", "check", "end", <<"true">>),
            Edge("e6", "check", "end", <<"false">>)>>)

FlowGraphs == {TwoLookupGraph, EarlyEmailGraph}

\* the accumulator the caller hands over: empty, or holding a branch token
\* or a temperature of the caller's own
FlowVariables ==
    {<<>>, [conditionResult |-> Str(<<"maybe">>)],
     [temperature |-> F64(3000), conditionResult |-> Str(<<"true">>)]}

\* every node that is no condition node has two outgoing edges that carry
\* branch handles and lead to different nodes
FanEdges ==
    <<Edge("e1", "start", "form", <<"false">>),
      Edge("e2", "start", "stop", <<"true">>),
      Edge("e3", "form", "weather-api", <<>>),
      Edge("e4", "form", "stop", <<"true">>),
      Edge("e5", "weather-api", "email", <<"false">>),
      Edge("e6", "weather-api", "stop", <<"true">>),
      Edge("e7", "email", "end", <<"false">>),
      Edge("e8", "email", "stop", <<"true">>),
      Edge("e9", "end", "ghost", <<"false">>),
      Edge("e10", "end", "stop", <<"true">>)>>

FanNodes ==
    <<Node("start", "start", NilMap),
      Node("form", "form", NilMap),
      Node("weather-api", "integration", WeatherMetadata),
      Node("email", "email", EmailMetadata),
      Node("end", "end", NilMap),
      Node("stop", "end", NilMap)>>

\* the fan in the order above, and with the edge list reversed
FanGraphs ==
    {Graph(FanNodes, FanEdges),
     Graph(FanNodes, [i \in 1..Len(FanEdges) |-> FanEdges[Len(FanEdges) + 1 - i]])}

\* definitions with two nodes of type start: the second start node is not
\* reachable, is the target of the first one's edge, or has the only edge
MultiStartGraphs ==
    {Graph(<<Node("x", "end", NilMap), Node("s1", "start", NilMap),
             Node("s2", "start", NilMap), Node("e", "end", NilMap)>>,
           <<Edge("e1", "s2", "x", <<>>), Edge("e2", "s1", "e", <<>>)>>),
     Graph(<<Node("s1", "start", NilMap), Node("s2", "start", NilMap),
             Node("e", "end", NilMap)>>,
           <<Edge("e1", "s1", "s2", <<>>), Edge("e2", "s2", "e", <<>>)>>),
     Graph(<<Node("s1", "start", NilMap), Node("s2", "start", NilMap)>>,
           <<Edge("e1", "s2", "s1", <<>>)>>)}

\* start -> email -> end with the email node's metadata
EmailGraph(metadata) ==
    Graph(<<Node("start", "start", NilMap), Node("email", "email", metadata),
            Node("end", "end", NilMap)>>,
          <<Edge("e1", "start", "email", <<>>), Edge("e2", "email", "end", <<>>)>>)

\* node.Data.Metadata of an email node: nil, the reference template, a
\* template that is no map, one without a body, one whose subject is no string
EmailMetadatas ==
    {NilMap, EmailMetadata,
     [emailTemplate |-> Str(<<"Alert">>)],
     [emailTemplate |->
         [kind |-> "map",
          m |-> [subject |-> Str(<<"{{name}}", ": ", "{{temperature}}">>)]]],
     [emailTemplate |->
         [kind |-> "map",
          m |-> [subject |-> IntV(100),
                 body |-> Str(<<"{{temperature}}", " in ", "{{city}}">>)]]]}

\* form values an email node can meet when no form node ran before it
EmailForms ==
    {NilMap, <<>>,
     [name |-> Str(<<"Alice">>), email |-> Str(<<"alice@example.com">>),
      city |-> Str(<<"Sydney">>)],
     [name |-> IntV(700), city |-> Nil],
     [email |-> Str(<<>>), city |-> Str(<<"Perth">>)]}

\* accumulators with a float64 temperature, with a temperature of another
\* type, and without one
EmailVariables ==
    {NilMap, <<>>, [temperature |-> F64(2504)], [temperature |-> F64(-500)],
     [temperature |-> IntV(2500)], [temperature |-> Str(<<"25.0">>)],
     [temperature |-> Nil]}

\* the form values of a request
ValidForm(city) ==
    [name |-> Str(<<"Alice">>), email |-> Str(<<"alice@example.com">>),
     city |-> Str(city)]

Forms ==
    {ValidForm(<<"Sydney">>), ValidForm(<<"sydney">>), ValidForm(<<"Perth">>),
     [email |-> Str(<<"alice@example.com">>), city |-> Str(<<"Sydney">>)],
     [name |-> Str(<<"Alice">>), email |-> Str(<<" ", " ">>),
      city |-> Str(<<"Sydney">>)],
     [name |-> Str(<<"Alice">>), email |-> Str(<<"alice@example.com">>),
      city |-> IntV(700)]}

\* start -> form -> end
FormGraph ==
    Graph(<<Node("start", "start", NilMap), Node("form", "form", NilMap),
            Node("end", "end", NilMap)>>,
          <<Edge("e1", "start", "form", <<>>), Edge("e2", "form", "end", <<>>)>>)

\* what a form field can hold: strings that are empty, blank, plain or
\* padded, a number, nil; Absent marks a key the map does not have
FieldValues ==
    {Str(<<>>), Str(<<" ">>), Str(<<"a">>), Str(<<" ", "a", " ">>), IntV(700),
     Nil}

Absent == [kind |-> "absent"]

FormOf(name, email, city) ==
    LET all == [name |-> name, email |-> email, city |-> city]
    IN  [k \in {f \in DOMAIN all : all[f] # Absent} |-> all[k]]

\* every combination of the three fields, and the nil map
WideForms ==
    {FormOf(n, e, c) : n \in FieldValues \cup {Absent},
                       e \in FieldValues \cup {Absent},
                       c \in FieldValues \cup {Absent}}
    \cup {NilMap}

Conditions ==
    [Operator : Operators \cup {"bogus"}, Threshold : {2500, 2504}]

\* operator strings that are none of the five: the zero value, a wrong
\* case, a trailing blank, another word
UnrecognizedOperators == {"", "GREATER_THAN", "greater_than ", "bogus"}

\* a temperature already in state.Variables, as a float64 or as an int
NumericVariables ==
    {[temperature |-> F64(3000)], [temperature |-> F64(2500)],
     [temperature |-> IntV(2500)], [temperature |-> F64(-500)]}

\* start -> condition -> {true: hot, false: cold}
CondGraph ==
    Graph(<<Node("start", "start", NilMap), Node("condition", "condition", NilMap),
            Node("hot", "end", NilMap), Node("cold", "end", NilMap)>>,
          <<Edge("e1", "start", "condition", <<>>),
            Edge("e2", "condition", "hot", <<"true">>),
            Edge("e3", "condition", "cold", <<"false">>)>>)

Hundredths == (0 - MaxHundredth)..MaxHundredth

\* state.Variables without a temperature or with one that is no number
OddVariables ==
    {NilMap, <<>>, [conditionResult |-> Str(<<"true">>)],
     [temperature |-> Str(<<"hot">>)], [temperature |-> Str(<<"25.0">>)],
     [temperature |-> Nil], [temperature |-> [kind |-> "bool", b |-> TRUE]]}

\* one entry of a node's "options" list
Option(city, lat, lon) ==
    [kind |-> "map", m |-> [city |-> Str(city), lat |-> lat, lon |-> lon]]

\* integrationNode(): Sydney and Melbourne with their coordinates
TestOptions ==
    <<Option(<<"Sydney">>, F64(-3387), F64(15121)),
      Option(<<"Melbourne">>, F64(-3781), F64(14496))>>

\* "options" values: the test's list, a city listed twice, coordinates that
\* are strings, nil or missing, entries that are no maps or have no city,
\* a bad entry before a good one for the same city, and no list at all
OptionLists ==
    {[kind |-> "list", items |-> items] : items \in
        {TestOptions,
         <<Option(<<"SYDNEY">>, IntV(100), IntV(200)),
           Option(<<"Sydney">>, F64(-3387), F64(15121))>>,
         <<Option(<<"Melbourne">>, F64(-3781), F64(14496)),
           Option(<<"Sydney">>, Str(<<"-33.87">>), F64(15121))>>,
         <<Option(<<"Sydney">>, F64(-3387), Nil),
           Option(<<"Sydney">>, F64(-3387), F64(15121))>>,
         <<Str(<<"Sydney">>),
           [kind |-> "map", m |-> [lat |-> F64(100), lon |-> F64(200)]],
           [kind |-> "map", m |-> [city |-> Str(<<"Sydney">>), lat |-> F64(-3387)]]>>,
         <<Str(<<"Sydney">>),
           Option(<<"Perth">>, F64(-3195), F64(11586)),
           Option(<<"sydney">>, F64(-3387), F64(15121))>>,
         <<>>}}
    \cup {Nil, Str(<<"Sydney">>)}

LookupMetadata(options) ==
    [apiEndpoint |-> Str(<<"https://api.open-meteo.com/v1/forecast">>),
     options |-> options]

\* start -> first -> second -> end, two integration nodes in a row
LookupGraph(first, second) ==
    Graph(<<Node("start", "start", NilMap),
            Node("first", "integration", LookupMetadata(first)),
            Node("second", "integration", LookupMetadata(second)),
            Node("end", "end", NilMap)>>,
          <<Edge("e1", "start", "first", <<>>),
            Edge("e2", "first", "second", <<>>),
            Edge("e3", "second", "end", <<>>)>>)

\* the form's city: listed in some case, not listed, empty, no string, absent
LookupForms ==
    {ValidForm(<<"Sydney">>), ValidForm(<<"sydney">>), ValidForm(<<"Melbourne">>),
     ValidForm(<<"Tokyo">>), ValidForm(<<>>),
     [name |-> Str(<<"Alice">>), email |-> Str(<<"alice@example.com">>),
      city |-> IntV(700)],
     [name |-> Str(<<"Alice">>), email |-> Str(<<"alice@example.com">>)]}

\* what the caller put into state.Variables
InitialVariables ==
    {NilMap, <<>>, [temperature |-> F64(3000)],
     [temperature |-> Str(<<"hot">>)]}

\* what client.GetTemperature can return
Answers ==
    {[ok |-> TRUE, n |-> t, error |-> <<>>] : t \in {2000, 2504, 3000}}
    \cup {[ok |-> FALSE, n |-> 0, error |-> <<"API timeout">>]}

\* TestEngine_CycleProtection's registry
SmallRegistry == [start |-> "StartExecutor", end |-> "EndExecutor"]

----------------------------------------------------------------------------
(* Engine.Execute *)

\* a nil *ExecutionResults / a nil error
NoResults == [nil |-> TRUE]
NoError == [nil |-> TRUE]
Error(text) == [text |-> text]

\* findStartNode taking the first node whatever its type
findStartNode_FirstNode(nodes, i) == IF i > Len(nodes) THEN 0 ELSE i

\* findStartNode returning the last node of type "start"
findStartNode_LastStart(nodes, i) ==
    LET s == {k \in i..Len(nodes) : nodes[k].Type = "start"}
    IN  IF s = {} THEN 0 ELSE CHOOSE k \in s : \A j \in s : j <= k

\* findStartNode: the first node of type "start", 0 (and an error) if none
RECURSIVE findStartNode(_, _)
findStartNode(nodes, i) ==
    IF i > Len(nodes) THEN 0
    ELSE IF nodes[i].Type = "start" THEN i
    ELSE findStartNode(nodes, i + 1)

\* edgeMap[id]: the edges whose source is id, in the order of wf.Edges
buildEdgeMap(edges, id) == SelectSeq(edges, LAMBDA e : e.Source = id)

\* nodeMap[id]: the loop overwrites, so the last node with that id; 0 if none
RECURSIVE nodeMap(_, _, _)
nodeMap(nodes, id, i) ==
    IF i = 0 THEN 0
    ELSE IF nodes[i].ID = id THEN i
    ELSE nodeMap(nodes, id, i - 1)

\* the first edge whose SourceHandle is the branch token; "" if none
RECURSIVE ConditionTarget(_, _)
ConditionTarget(edges, condResult) ==
    IF edges = <<>> THEN ""
    ELSE IF Head(edges).SourceHandle = condResult THEN Head(edges).Target
    ELSE ConditionTarget(Tail(edges), condResult)

\* NextNodeID without the condition branch: always the first outgoing edge
NextNodeID_FirstEdge(node, st) ==
    LET edges == buildEdgeMap(wf.Edges, node.ID)
    IN  IF Len(edges) > 0 THEN edges[1].Target ELSE ""

\* NextNodeID that follows the branch handle at every node that has an edge
\* carrying the branch token
NextNodeID_HandleAtEveryNode(node, st) ==
    LET edges == buildEdgeMap(wf.Edges, node.ID)
        token == AsString(MapGet(st.Variables, "conditionResult"))
    IN  IF node.Type = "condition" \/ ConditionTarget(edges, token) # ""
        THEN ConditionTarget(edges, token)
        ELSE IF Len(edges) > 0 THEN edges[1].Target
        ELSE ""

\* nextNodeID after a completed step at node, with the state st the handler left
NextNodeID(node, st) ==
    LET edges == buildEdgeMap(wf.Edges, node.ID)
    IN  IF node.Type = "condition"
        THEN ConditionTarget(edges, AsString(MapGet(st.Variables, "conditionResult")))
        ELSE IF Len(edges) > 0 THEN edges[1].Target
        ELSE ""

\* StepOf that copies the handler's status also when the handler failed
StepOf_KeepsStatus(node, n, r) ==
    [StepNumber |-> n, NodeID |-> node.ID, NodeType |-> node.Type,
     Type |-> node.Type, Label |-> node.Label,
     Status |-> r.status,
     Error |-> r.error,
     Output |-> IF r.failed
                THEN [message |-> Str(<<"Error: ">> \o r.error)]
                ELSE r.output]

\* StepOf numbering the steps from 0
StepOf_ZeroBased(node, n, r) ==
    [StepNumber |-> n - 1, NodeID |-> node.ID, NodeType |-> node.Type,
     Type |-> node.Type, Label |-> node.Label,
     Status |-> IF r.failed THEN "error" ELSE r.status,
     Error |-> r.error,
     Output |-> IF r.failed
                THEN [message |-> Str(<<"Error: ">> \o r.error)]
                ELSE r.output]

\* the ExecutionStep built after the handler returned r
\* StepOf numbering the steps with a counter all the runs of the engine share
StepOf_SharedCounter(node, n, r) ==
    [StepNumber |-> n + (IF parked = <<>> THEN 0 ELSE parked[1].stepNum),
     NodeID |-> node.ID, NodeType |-> node.Type,
     Type |-> node.Type, Label |-> node.Label,
     Status |-> IF r.failed THEN "error" ELSE r.status,
     Error |-> r.error,
     Output |-> IF r.failed
                THEN [message |-> Str(<<"Error: ">> \o r.error)]
                ELSE r.output]

\* StepOf that leaves the output of a failed handler as it is: no message
StepOf_NoErrorOutput(node, n, r) ==
    [StepNumber |-> n, NodeID |-> node.ID, NodeType |-> node.Type,
     Type |-> node.Type, Label |-> node.Label,
     Status |-> IF r.failed THEN "error" ELSE r.status,
     Error |-> r.error,
     Output |-> r.output]

StepOf(node, n, r) ==
    [StepNumber |-> n, NodeID |-> node.ID, NodeType |-> node.Type,
     Type |-> node.Type, Label |-> node.Label,
     Status |-> IF r.failed THEN "error" ELSE r.status,
     Error |-> r.error,
     Output |-> IF r.failed
                THEN [message |-> Str(<<"Error: ">> \o r.error)]
                ELSE r.output]

\* ExecuteCall that also turns the nil Metadata of the nodes into empty maps
ExecuteCall_NormalisesMetadata ==
    /\ pc = "call"
    /\ state' = IF state.Variables = NilMap
                THEN [state EXCEPT !.Variables = <<>>]
                ELSE state
    /\ wf' = [wf EXCEPT !.Nodes =
                 [i \in 1..Len(wf.Nodes) |->
                     IF wf.Nodes[i].Metadata = NilMap
                     THEN [wf.Nodes[i] EXCEPT !.Metadata = <<>>]
                     ELSE wf.Nodes[i]]]
    /\ LET s == findStartNode(wf.Nodes, 1)
       IN  IF s = 0
           THEN /\ err' = Error(<<"workflow has no start node">>)
                /\ pc' = "returned"
                /\ UNCHANGED current
           ELSE /\ current' = s
                /\ pc' = "loop"
                /\ UNCHANGED err
    /\ UNCHANGED <<registry, stepNum, steps, results, execErr, invoked, lookups,
                   broke>>
    /\ UNCHANGED <<answers, calls, outer>>

\* the call: nil Variables become an empty map, the start node is looked up
ExecuteCall ==
    /\ pc = "call"
    /\ state' = IF state.Variables = NilMap
                THEN [state EXCEPT !.Variables = <<>>]
                ELSE state
    /\ LET s == findStartNode(wf.Nodes, 1)
       IN  IF s = 0
           THEN /\ err' = Error(<<"workflow has no start node">>)
                /\ pc' = "returned"
                /\ UNCHANGED current
           ELSE /\ current' = s
                /\ pc' = "loop"
                /\ UNCHANGED err
    /\ UNCHANGED <<wf, registry, stepNum, steps, results, execErr, invoked, lookups,
                   broke>>
    /\ UNCHANGED <<answers, calls, outer>>

\* the loop condition off by one
LoopCond_Inclusive == stepNum <= maxSteps

\* the loop condition
LoopCond == stepNum < maxSteps

\* DispatchMiss whose error names the node instead of its type
DispatchMiss_NamesNode ==
    /\ pc = "loop"
    /\ LoopCond
    /\ wf.Nodes[current].Type \notin DOMAIN registry
    /\ err' = Error(<<"no executor registered for node type ",
                      wf.Nodes[current].ID>>)
    /\ pc' = "returned"
    /\ UNCHANGED <<wf, registry, state, current, stepNum, steps, results,
                   execErr, invoked, lookups, broke>>
    /\ UNCHANGED <<answers, calls, outer>>

\* the registry has no executor for the current node's type
DispatchMiss ==
    /\ pc = "loop"
    /\ LoopCond
    /\ wf.Nodes[current].Type \notin DOMAIN registry
    /\ err' = Error(<<"no executor registered for node type ",
                      wf.Nodes[current].Type>>)
    /\ pc' = "returned"
    /\ UNCHANGED <<wf, registry, state, current, stepNum, steps, results,
                   execErr, invoked, lookups, broke>>
    /\ UNCHANGED <<answers, calls, outer>>

\* one iteration of the loop whose handler returned r
Iteration(r) ==
    LET node == wf.Nodes[current]
        n == stepNum + 1
        next == NextNodeID(node, r.state)
        target == nodeMap(wf.Nodes, next, Len(wf.Nodes))
    IN  /\ state' = r.state
        /\ stepNum' = n
        /\ steps' = Append(steps, StepOf(node, n, r))
        /\ execErr' = IF r.failed THEN Error(r.error) ELSE NoError
        /\ invoked' = Append(invoked, current)
        /\ lookups' = IF r.lookup THEN lookups + 1 ELSE lookups
        /\ IF r.failed
           THEN /\ results' = [Status |-> "failed", Steps |-> steps']
                /\ pc' = "returned"
                /\ UNCHANGED <<err, current, broke>>
           ELSE IF next = ""
           THEN /\ pc' = "after"
                /\ broke' = TRUE
                /\ UNCHANGED <<err, current, results>>
           ELSE IF target = 0
           THEN /\ err' = Error(<<"edge target node ", next, " not found">>)
                /\ pc' = "returned"
                /\ UNCHANGED <<current, results, broke>>
           ELSE /\ current' = target
                /\ UNCHANGED <<pc, err, results, broke>>
        /\ UNCHANGED <<wf, registry>>
        /\ UNCHANGED outer

NoAnswer == [ok |-> FALSE, n |-> 0, error |-> <<>>]

\* the loop body when the registry maps the current type to executor
Step(executor, answer) ==
    /\ pc = "loop"
    /\ LoopCond
    /\ wf.Nodes[current].Type \in DOMAIN registry
    /\ registry[wf.Nodes[current].Type] = executor
    /\ Iteration(Run(executor, wf.Nodes[current], state, answer))
    /\ answers' = IF Run(executor, wf.Nodes[current], state, answer).lookup
                  THEN Append(answers, answer)
                  ELSE answers
    /\ calls' = LET r == Run(executor, wf.Nodes[current], state, answer)
                IN  IF r.lookup
                    THEN Append(calls, [lat |-> r.lat, lon |-> r.lon])
                    ELSE calls

StepStart == Step("StartExecutor", NoAnswer)
StepForm == Step("FormExecutor", NoAnswer)
StepIntegration == \E answer \in Answers : Step("IntegrationExecutor", answer)
StepCondition == Step("ConditionExecutor", NoAnswer)
StepEmail == Step("EmailExecutor", NoAnswer)
StepEnd == Step("EndExecutor", NoAnswer)

\* the loop condition stepNum < maxSteps is false
LoopExit ==
    /\ pc = "loop"
    /\ ~LoopCond
    /\ pc' = "after"
    /\ UNCHANGED <<wf, registry, state, current, stepNum, steps, results, err,
                   execErr, invoked, lookups, broke>>
    /\ UNCHANGED <<answers, calls, outer>>

\* ReturnExceeded going round the loop again instead of returning
ReturnExceeded_Reenters ==
    /\ pc = "after"
    /\ stepNum >= maxSteps
    /\ pc' = "loop"
    /\ UNCHANGED <<wf, registry, state, current, stepNum, steps, results, err,
                   execErr, invoked, lookups, broke>>
    /\ UNCHANGED <<answers, calls, outer>>

\* after the loop: the step bound was hit
ReturnExceeded ==
    /\ pc = "after"
    /\ stepNum >= maxSteps
    /\ err' = Error(<<"execution exceeded maximum of ", ToString(maxSteps),
                      " steps (possible cycle)">>)
    /\ pc' = "returned"
    /\ UNCHANGED <<wf, registry, state, current, stepNum, steps, results,
                   execErr, invoked, lookups, broke>>
    /\ UNCHANGED <<answers, calls, outer>>

\* after the loop: completed
ReturnCompleted ==
    /\ pc = "after"
    /\ stepNum < maxSteps
    /\ results' = [Status |-> "completed", Steps |-> steps]
    /\ pc' = "returned"
    /\ UNCHANGED <<wf, registry, state, current, stepNum, steps, err,
                   execErr, invoked, lookups, broke>>
    /\ UNCHANGED <<answers, calls, outer>>

----------------------------------------------------------------------------
(* The HTTP handlers of the service.  A request is                          *)
(*   route  : "get" (GET /workflows/{id}) or "execute" (POST .../execute)   *)
(*   uuid   : the {id} of the path is a well-formed UUID                    *)
(*   bodyOK : json.Decode of the body into an ExecuteRequest succeeds       *)
(*   FormData, Condition : the decoded ExecuteRequest                       *)
(* and the repository answers Get with a definition, with nil, nil or with  *)
(* an error.                                                                *)

NoRequest == [route |-> "none"]
NoRepo == [answer |-> "none"]
NoResponse == [status |-> 0]

\* no connection pool: the Repository is not used
NoDatabase == [schema |-> FALSE, rows |-> <<>>]

\* writeError(w, status, message)
writeError(status, message) == [status |-> status, message |-> message]

\* w.WriteHeader(http.StatusOK); json.NewEncoder(w).Encode(body)
writeOK(body) == [status |-> 200, body |-> body]

\* validationError.Error()
errMissing(field) == <<field, " is required">>
errInvalid(field) == <<field, " is invalid">>

validOperators ==
    {"greater_than", "less_than", "equals",
     "greater_than_or_equal", "less_than_or_equal"}

\* the loop of validateExecuteRequest over name, email, city from field i on:
\* the first field that is missing, no string or "" (no trimming); <<>> if none
RECURSIVE validateFields(_, _)
validateFields(fd, i) ==
    IF i > Len(FormFields) THEN <<>>
    ELSE IF ~MapHas(fd, FormFields[i]) THEN errMissing(FormFields[i])
    ELSE IF \/ ~IsString(MapGet(fd, FormFields[i]))
            \/ AsString(MapGet(fd, FormFields[i])) = <<>>
         THEN errMissing(FormFields[i])
    ELSE validateFields(fd, i + 1)

\* validateExecuteRequest that accepts every operator
validateExecuteRequest_AnyOperator(r) ==
    IF r.FormData = NilMap THEN errMissing("formData")
    ELSE validateFields(r.FormData, 1)

\* the error text, <<>> for nil
validateExecuteRequest(r) ==
    IF r.FormData = NilMap THEN errMissing("formData")
    ELSE IF validateFields(r.FormData, 1) # <<>>
         THEN validateFields(r.FormData, 1)
    ELSE IF r.Condition.Operator \notin validOperators
         THEN errInvalid("operator")
    ELSE <<>>

\* GET /workflows/{id}: the whole handler
HandleGetWorkflow ==
    /\ hpc = "start"
    /\ req.route = "get"
    /\ consulted' = Append(consulted, "repo.Get")
    /\ resp' = IF repo.answer = "error"
               THEN writeError(500, <<"internal server error">>)
               ELSE IF repo.answer = "absent"
               THEN writeError(404, <<"workflow not found">>)
               ELSE writeOK(repo.workflow)
    /\ hpc' = "done"
    /\ UNCHANGED <<wf, registry, state, pc, current, stepNum, steps, results,
                   err, execErr, invoked, lookups, broke, answers, initial,
                   req, repo, parked, active, calls, db, seeded>>

\* the handler answers without calling the engine
Answer(response, called) ==
    /\ resp' = response
    /\ consulted' = consulted \o called
    /\ hpc' = "done"
    /\ UNCHANGED <<wf, state, pc, initial>>

\* HandleExecuteRespond answering 500 for a run that failed at a step
HandleExecuteRespond_FailedIs500 ==
    /\ hpc = "executing"
    /\ pc = "returned"
    /\ resp' = IF err # NoError \/ results.Status = "failed"
               THEN writeError(500, <<"internal server error">>)
               ELSE writeOK(results)
    /\ hpc' = "done"
    /\ UNCHANGED <<wf, registry, state, pc, current, stepNum, steps, results,
                   err, execErr, invoked, lookups, broke, answers, initial,
                   req, repo, consulted, parked, active, calls, db, seeded>>

\* POST /workflows/{id}/execute, after engine.Execute has returned
HandleExecuteRespond ==
    /\ hpc = "executing"
    /\ pc = "returned"
    /\ resp' = IF err # NoError
               THEN writeError(500, <<"internal server error">>)
               ELSE writeOK(results)
    /\ hpc' = "done"
    /\ UNCHANGED <<wf, registry, state, pc, current, stepNum, steps, results,
                   err, execErr, invoked, lookups, broke, answers, initial,
                   req, repo, consulted, parked, active, calls, db, seeded>>

\* POST /workflows/{id}/execute, up to the call of engine.Execute
\* HandleExecuteWorkflow that looks the definition up before it validates
HandleExecuteWorkflow_LooksUpFirst ==
    /\ hpc = "start"
    /\ req.route = "execute"
    /\ IF ~req.bodyOK
       THEN Answer(writeError(400, <<"invalid request body">>), <<"decode">>)
       ELSE IF repo.answer = "error"
       THEN Answer(writeError(500, <<"internal server error">>),
                   <<"decode", "repo.Get">>)
       ELSE IF repo.answer = "absent"
       THEN Answer(writeError(404, <<"workflow not found">>),
                   <<"decode", "repo.Get">>)
       ELSE IF validateExecuteRequest(req) # <<>>
       THEN Answer(writeError(400, validateExecuteRequest(req)),
                   <<"decode", "repo.Get", "validate">>)
       ELSE /\ wf' = repo.workflow
            /\ state' = [FormData |-> req.FormData,
                         Condition |-> req.Condition,
                         Variables |-> <<>>]
            /\ initial' = [wf |-> wf', state |-> state']
            /\ pc' = "call"
            /\ hpc' = "executing"
            /\ consulted' = consulted
                            \o <<"decode", "repo.Get", "validate", "engine.Execute">>
            /\ UNCHANGED resp
    /\ UNCHANGED <<registry, current, stepNum, steps, results, err, execErr,
                   invoked, lookups, broke, answers, req, repo, parked, active,
                   calls, db, seeded>>

HandleExecuteWorkflow ==
    /\ hpc = "start"
    /\ req.route = "execute"
    /\ IF ~req.bodyOK
       THEN Answer(writeError(400, <<"invalid request body">>), <<"decode">>)
       ELSE IF validateExecuteRequest(req) # <<>>
       THEN Answer(writeError(400, validateExecuteRequest(req)),
                   <<"decode", "validate">>)
       ELSE IF repo.answer = "error"
       THEN Answer(writeError(500, <<"internal server error">>),
                   <<"decode", "validate", "repo.Get">>)
       ELSE IF repo.answer = "absent"
       THEN Answer(writeError(404, <<"workflow not found">>),
                   <<"decode", "validate", "repo.Get">>)
       ELSE /\ wf' = repo.workflow
            /\ state' = [FormData |-> req.FormData,
                         Condition |-> req.Condition,
                         Variables |-> <<>>]
            /\ initial' = [wf |-> wf', state |-> state']
            /\ pc' = "call"
            /\ hpc' = "executing"
            /\ consulted' = consulted
                            \o <<"decode", "validate", "repo.Get", "engine.Execute">>
            /\ UNCHANGED resp
    /\ UNCHANGED <<registry, current, stepNum, steps, results, err, execErr,
                   invoked, lookups, broke, answers, req, repo, parked, active,
                   calls, db, seeded>>

----------------------------------------------------------------------------
(* Several Execute calls at once.  Each call runs in its own goroutine: its *)
(* arguments wf and state and its locals are its own, the Engine and its    *)
(* registry are the one value all calls share.  The call of the goroutine   *)
(* that is running is held by the variables of Engine.Execute above, the    *)
(* calls of the other goroutines are parked.                                *)

\* the call of the running goroutine
Context ==
    [wf |-> wf, state |-> state, pc |-> pc, current |-> current,
     stepNum |-> stepNum, steps |-> steps, results |-> results, err |-> err,
     execErr |-> execErr, invoked |-> invoked, lookups |-> lookups,
     broke |-> broke, answers |-> answers, initial |-> initial,
     calls |-> calls]

\* Switch after which the running goroutine works on the ExecutionState the
\* previous one was working on: one state for all the calls
Switch_SharedState ==
    /\ parked # <<>>
    /\ parked' = Append(Tail(parked), Context)
    /\ active' = (active % (Len(parked) + 1)) + 1
    /\ wf' = parked[1].wf
    /\ pc' = parked[1].pc
    /\ current' = parked[1].current
    /\ stepNum' = parked[1].stepNum
    /\ steps' = parked[1].steps
    /\ results' = parked[1].results
    /\ err' = parked[1].err
    /\ execErr' = parked[1].execErr
    /\ invoked' = parked[1].invoked
    /\ lookups' = parked[1].lookups
    /\ broke' = parked[1].broke
    /\ answers' = parked[1].answers
    /\ initial' = parked[1].initial
    /\ calls' = parked[1].calls
    /\ UNCHANGED <<state, registry, hpc, req, repo, resp, consulted, db, seeded>>

\* the scheduler lets the next goroutine run
Switch ==
    /\ parked # <<>>
    /\ parked' = Append(Tail(parked), Context)
    /\ active' = (active % (Len(parked) + 1)) + 1
    /\ wf' = parked[1].wf
    /\ state' = parked[1].state
    /\ pc' = parked[1].pc
    /\ current' = parked[1].current
    /\ stepNum' = parked[1].stepNum
    /\ steps' = parked[1].steps
    /\ results' = parked[1].results
    /\ err' = parked[1].err
    /\ execErr' = parked[1].execErr
    /\ invoked' = parked[1].invoked
    /\ lookups' = parked[1].lookups
    /\ broke' = parked[1].broke
    /\ answers' = parked[1].answers
    /\ initial' = parked[1].initial
    /\ calls' = parked[1].calls
    /\ UNCHANGED <<registry, hpc, req, repo, resp, consulted, db, seeded>>

----------------------------------------------------------------------------
(* The Repository.  The database is                                         *)
(*   schema : the table workflows exists                                    *)
(*   rows   : the rows of the table, in the order they were inserted        *)
(*   now    : what NOW() returns                                            *)
(* and seeded holds, for each call of Seed, the error it returned and the   *)
(* time of the call.                                                        *)

sampleWorkflowID == "550e8400-e29b-41d4-a716-446655440000"

\* the row Seed's INSERT writes at time t: the columns it names, and the
\* defaults of created_at and updated_at
SampleRow(t) ==
    [id |-> sampleWorkflowID, name |-> <<"Weather Alert Workflow">>,
     nodes |-> "sampleNodes", edges |-> "sampleEdges",
     created_at |-> t, updated_at |-> t]

\* a database server without the table
EmptyDatabase == [schema |-> FALSE, rows |-> <<>>, now |-> 0]

\* time passes on the database server
Tick ==
    /\ db.now < MaxClock
    /\ db' = [db EXCEPT !.now = @ + 1]
    /\ UNCHANGED <<wf, registry, state, pc, current, stepNum, steps, results,
                   err, execErr, invoked, lookups, broke, answers, calls>>
    /\ UNCHANGED <<initial, hpc, req, repo, resp, consulted, parked, active,
                   seeded>>

\* CREATE TABLE IF NOT EXISTS workflows
InitSchema ==
    /\ db' = [db EXCEPT !.schema = TRUE]
    /\ UNCHANGED <<wf, registry, state, pc, current, stepNum, steps, results,
                   err, execErr, invoked, lookups, broke, answers, calls>>
    /\ UNCHANGED <<initial, hpc, req, repo, resp, consulted, parked, active,
                   seeded>>

\* the rows after INSERT ... ON CONFLICT (id) DO UPDATE: a row with the id is
\* rewritten
Insert_Upserts(rows, row) ==
    IF \E i \in 1..Len(rows) : rows[i].id = row.id
    THEN [i \in 1..Len(rows) |->
             IF rows[i].id = row.id
             THEN [row EXCEPT !.created_at = rows[i].created_at]
             ELSE rows[i]]
    ELSE Append(rows, row)

\* the rows after INSERT ... ON CONFLICT (id) DO NOTHING
Insert(rows, row) ==
    IF \E i \in 1..Len(rows) : rows[i].id = row.id
    THEN rows
    ELSE Append(rows, row)

\* Repository.Seed: the INSERT fails when the table does not exist
Seed ==
    /\ Len(seeded) < MaxSeeds
    /\ IF ~db.schema
       THEN /\ seeded' = Append(seeded,
                   [err |-> Error(<<"seed workflow: ",
                                    "relation workflows does not exist">>),
                    at |-> db.now])
            /\ UNCHANGED db
       ELSE /\ db' = [db EXCEPT !.rows = Insert(@, SampleRow(db.now))]
            /\ seeded' = Append(seeded, [err |-> NoError, at |-> db.now])
    /\ UNCHANGED <<wf, registry, state, pc, current, stepNum, steps, results,
                   err, execErr, invoked, lookups, broke, answers, calls>>
    /\ UNCHANGED <<initial, hpc, req, repo, resp, consulted, parked, active>>

----------------------------------------------------------------------------
(* The specification: one Execute call on a definition and an input *)

\* no HTTP request, repository or response: Execute is called directly, as
\* the engine tests call it
DirectCall ==
    /\ hpc = "none"
    /\ req = NoRequest
    /\ repo = NoRepo
    /\ resp = NoResponse
    /\ consulted = <<>>
    /\ parked = <<>>
    /\ active = 1
    /\ db = NoDatabase
    /\ seeded = <<>>

InitRun ==
    /\ pc = "call"
    /\ current = 0
    /\ stepNum = 0
    /\ steps = <<>>
    /\ results = NoResults
    /\ err = NoError
    /\ execErr = NoError
    /\ invoked = <<>>
    /\ lookups = 0
    /\ broke = FALSE
    /\ answers = <<>>
    /\ calls = <<>>

Init ==
    /\ InitRun
    /\ DirectCall
    /\ \/ /\ wf \in BranchGraphs
          /\ registry = NewRegistry
          /\ state \in [FormData : Forms, Condition : Conditions,
                        Variables : InitialVariables]
       \/ /\ wf \in StructuralGraphs
          /\ registry \in {NewRegistry, SmallRegistry}
          /\ state \in [FormData : {ValidForm(<<"Sydney">>)},
                        Condition : [Operator : {"greater_than", "less_than"},
                                     Threshold : {2500}],
                        Variables : InitialVariables]
       \/ /\ wf \in BranchGraphs
          /\ registry = NewRegistry
          /\ state \in [FormData : {ValidForm(<<"Sydney">>)},
                        Condition : [Operator : UnrecognizedOperators,
                                     Threshold : {2500, 2504, -500}],
                        Variables : NumericVariables]
       \/ /\ wf = FormGraph
          /\ registry = NewRegistry
          /\ state \in [FormData : WideForms,
                        Condition : [Operator : {"greater_than"},
                                     Threshold : {2500}],
                        Variables : {<<>>}]
       \/ /\ wf \in MultiStartGraphs
          /\ registry \in {NewRegistry, SmallRegistry}
          /\ state \in [FormData : {ValidForm(<<"Sydney">>)},
                        Condition : [Operator : {"greater_than"},
                                     Threshold : {2500}],
                        Variables : {<<>>}]
       \/ /\ wf \in FanGraphs
          /\ registry = NewRegistry
          /\ state \in [FormData : {ValidForm(<<"Sydney">>)},
                        Condition : [Operator : {"greater_than"},
                                     Threshold : {2500}],
                        Variables : {<<>>, [conditionResult |-> Str(<<"true">>)],
                                     [conditionResult |-> Str(<<"false">>)]}]
    /\ initial = [wf |-> wf, state |-> state]

Next ==
    \/ ExecuteCall
    \/ DispatchMiss
    \/ StepStart
    \/ StepForm
    \/ StepIntegration
    \/ StepCondition
    \/ StepEmail
    \/ StepEnd
    \/ LoopExit
    \/ ReturnExceeded
    \/ ReturnCompleted

Spec == Init /\ [][Next]_vars

\* runs of the condition handler: every operator on every temperature and
\* threshold of the grid, and every accumulator without a usable temperature
CondInit ==
    /\ InitRun
    /\ DirectCall
    /\ wf = CondGraph
    /\ registry = NewRegistry
    /\ \/ state \in [FormData : {ValidForm(<<"Sydney">>)},
                      Condition : [Operator : Operators, Threshold : Hundredths],
                      Variables : {[temperature |-> F64(t)] : t \in Hundredths}]
       \/ state \in [FormData : {ValidForm(<<"Sydney">>)},
                      Condition : [Operator : {"greater_than", "equals"},
                                   Threshold : {0, 2500}],
                      Variables : OddVariables]
    /\ initial = [wf |-> wf, state |-> state]

CondNext ==
    \/ ExecuteCall
    \/ StepStart
    \/ StepCondition
    \/ StepEnd
    \/ ReturnCompleted

CondSpec == CondInit /\ [][CondNext]_vars

\* runs in which the accumulator carries values from handler to handler
FlowInit ==
    /\ InitRun
    /\ DirectCall
    /\ wf \in FlowGraphs
    /\ registry = NewRegistry
    /\ state \in [FormData : {ValidForm(<<"Sydney">>)},
                  Condition : [Operator : {"greater_than", "less_than", "bogus"},
                               Threshold : {2500, 2504}],
                  Variables : FlowVariables]
    /\ initial = [wf |-> wf, state |-> state]

FlowNext ==
    \/ ExecuteCall
    \/ StepStart
    \/ StepIntegration
    \/ StepCondition
    \/ StepEmail
    \/ StepEnd
    \/ ReturnCompleted

FlowSpec == FlowInit /\ [][FlowNext]_vars

\* runs of the email handler on every metadata, form values and accumulator
EmailInit ==
    /\ InitRun
    /\ DirectCall
    /\ \E metadata \in EmailMetadatas : wf = EmailGraph(metadata)
    /\ registry = NewRegistry
    /\ state \in [FormData : EmailForms,
                  Condition : {[Operator |-> "greater_than", Threshold |-> 2500]},
                  Variables : EmailVariables]
    /\ initial = [wf |-> wf, state |-> state]

EmailNext ==
    \/ ExecuteCall
    \/ StepStart
    \/ StepEmail
    \/ StepEnd
    \/ ReturnCompleted

EmailSpec == EmailInit /\ [][EmailNext]_vars

\* runs of the integration handler: every option list of OptionLists at the
\* first integration node, the test's list or a doubled city at the second
LookupInit ==
    /\ InitRun
    /\ DirectCall
    /\ \E first \in OptionLists :
       \E second \in {o \in OptionLists : o.kind = "list" /\ Len(o.items) = 2} :
          wf = LookupGraph(first, second)
    /\ registry = NewRegistry
    /\ state \in [FormData : LookupForms,
                  Condition : {[Operator |-> "greater_than", Threshold |-> 2500]},
                  Variables : {<<>>, [temperature |-> F64(3000)],
                               [note |-> Str(<<"kept">>)]}]
    /\ initial = [wf |-> wf, state |-> state]

LookupNext ==
    \/ ExecuteCall
    \/ StepStart
    \/ StepIntegration
    \/ StepEnd
    \/ ReturnCompleted

LookupSpec == LookupInit /\ [][LookupNext]_vars

\* the Repository on a database server that has no table yet; no Execute
\* call and no request is made
RepoInit ==
    /\ db = EmptyDatabase
    /\ seeded = <<>>
    /\ hpc = "none"
    /\ req = NoRequest
    /\ repo = NoRepo
    /\ resp = NoResponse
    /\ consulted = <<>>
    /\ parked = <<>>
    /\ active = 1
    /\ pc = "idle"
    /\ wf = Graph(<<>>, <<>>)
    /\ registry = NewRegistry
    /\ state = [FormData |-> NilMap,
                Condition |-> [Operator |-> "", Threshold |-> 0],
                Variables |-> NilMap]
    /\ initial = [wf |-> wf, state |-> state]
    /\ current = 0
    /\ stepNum = 0
    /\ steps = <<>>
    /\ results = NoResults
    /\ err = NoError
    /\ execErr = NoError
    /\ invoked = <<>>
    /\ lookups = 0
    /\ broke = FALSE
    /\ answers = <<>>
    /\ calls = <<>>

RepoNext ==
    \/ Tick
    \/ InitSchema
    \/ Seed

RepoSpec == RepoInit /\ [][RepoNext]_vars

\* the form values a decoded body can hold: JSON numbers are float64
HttpForms ==
    {ValidForm(<<"Sydney">>), ValidForm(<<"Perth">>),
     [name |-> Str(<<"Alice">>), email |-> Str(<<" ">>),
      city |-> Str(<<"Sydney">>)],
     [email |-> Str(<<"alice@example.com">>), city |-> Str(<<"Sydney">>)],
     [name |-> Str(<<"Alice">>), email |-> Str(<<>>),
      city |-> Str(<<"Sydney">>)],
     [name |-> Str(<<"Alice">>), email |-> Str(<<"alice@example.com">>),
      city |-> F64(700)],
     NilMap}

HttpConditions ==
    [Operator : {"greater_than", "less_than_or_equal", "bogus", ""},
     Threshold : {2500}]

\* the definitions the repository can hold
HttpGraphs ==
    {ReferenceGraph, UnknownTypeGraph, Graph(<<>>, <<>>)} \cup CyclicGraphs

Requests ==
    [route : {"execute"}, uuid : BOOLEAN, bodyOK : {TRUE},
     FormData : HttpForms, Condition : HttpConditions]
    \cup [route : {"get", "execute"}, uuid : BOOLEAN, bodyOK : {FALSE},
          FormData : {NilMap},
          Condition : [Operator : {""}, Threshold : {0}]]

Repos ==
    {[answer |-> "found", workflow |-> g] : g \in HttpGraphs}
    \cup {[answer |-> a, workflow |-> Graph(<<>>, <<>>)] :
             a \in {"absent", "error"}}

\* one request to the service; the engine is idle until the handler calls it
HttpInit ==
    /\ hpc = "start"
    /\ req \in Requests
    /\ repo \in Repos
    /\ resp = NoResponse
    /\ consulted = <<>>
    /\ parked = <<>>
    /\ active = 1
    /\ pc = "idle"
    /\ wf = Graph(<<>>, <<>>)
    /\ registry = NewRegistry
    /\ state = [FormData |-> NilMap,
                Condition |-> [Operator |-> "", Threshold |-> 0],
                Variables |-> NilMap]
    /\ initial = [wf |-> wf, state |-> state]
    /\ current = 0
    /\ stepNum = 0
    /\ steps = <<>>
    /\ results = NoResults
    /\ err = NoError
    /\ execErr = NoError
    /\ invoked = <<>>
    /\ lookups = 0
    /\ broke = FALSE
    /\ answers = <<>>
    /\ calls = <<>>
    /\ db = NoDatabase
    /\ seeded = <<>>

HttpNext ==
    \/ HandleGetWorkflow
    \/ HandleExecuteWorkflow
    \/ HandleExecuteRespond
    \/ ExecuteCall
    \/ DispatchMiss
    \/ StepStart
    \/ StepForm
    \/ StepIntegration
    \/ StepCondition
    \/ StepEmail
    \/ StepEnd
    \/ LoopExit
    \/ ReturnExceeded
    \/ ReturnCompleted

HttpSpec == HttpInit /\ [][HttpNext]_vars

\* the calls that run at once: the reference graph with inputs on which it
\* completes, fails at the integration step or fails at the form step, a
\* condition right after start, a cycle, a node of unknown type
Scenarios ==
    [wf : {ReferenceGraph},
     state : [FormData : {ValidForm(<<"Sydney">>), ValidForm(<<"Perth">>),
                          [name |-> Str(<<"Alice">>), email |-> Str(<<" ">>),
                           city |-> Str(<<"Sydney">>)]},
              Condition : [Operator : {"greater_than"}, Threshold : {2500}],
              Variables : {<<>>}]]
    \cup [wf : {EarlyConditionGraph, UnknownTypeGraph},
          state : [FormData : {ValidForm(<<"Sydney">>)},
                   Condition : [Operator : {"less_than"}, Threshold : {2500}],
                   Variables : {<<>>, [temperature |-> F64(3000)]}]]
    \cup [wf : {g \in CyclicGraphs : Len(g.Nodes) = 1},
          state : [FormData : {ValidForm(<<"Sydney">>)},
                   Condition : [Operator : {"less_than"}, Threshold : {2500}],
                   Variables : {<<>>}]]

\* a call that has not started
Fresh(s) ==
    [wf |-> s.wf, state |-> s.state, pc |-> "call", current |-> 0,
     stepNum |-> 0, steps |-> <<>>, results |-> NoResults, err |-> NoError,
     execErr |-> NoError, invoked |-> <<>>, lookups |-> 0, broke |-> FALSE,
     answers |-> <<>>, initial |-> s, calls |-> <<>>]

\* two goroutines, each with its call, on one engine; at most one of the two
\* calls is on the cycle
ConcInit ==
    /\ InitRun
    /\ registry = NewRegistry
    /\ \E s \in Scenarios :
          /\ wf = s.wf
          /\ state = s.state
          /\ initial = s
    /\ parked \in {<<Fresh(s)>> : s \in Scenarios}
    /\ wf \notin CyclicGraphs \/ parked[1].wf \notin CyclicGraphs
    /\ active = 1
    /\ hpc = "none"
    /\ req = NoRequest
    /\ repo = NoRepo
    /\ resp = NoResponse
    /\ consulted = <<>>
    /\ db = NoDatabase
    /\ seeded = <<>>

ConcNext ==
    \/ Switch
    \/ ExecuteCall
    \/ DispatchMiss
    \/ StepStart
    \/ StepForm
    \/ StepIntegration
    \/ StepCondition
    \/ StepEmail
    \/ StepEnd
    \/ LoopExit
    \/ ReturnExceeded
    \/ ReturnCompleted

ConcSpec == ConcInit /\ [][ConcNext]_vars

\* the runs whose termination is checked: every branching graph, and every
\* structural graph of at most MaxFairNodes nodes, the cycles among them
MaxFairNodes == 3

FairInit ==
    /\ InitRun
    /\ DirectCall
    /\ \/ /\ wf \in BranchGraphs
          /\ registry = NewRegistry
          /\ state \in [FormData : Forms,
                        Condition : [Operator : {"greater_than", "bogus"},
                                     Threshold : {2500}],
                        Variables : {<<>>}]
       \/ /\ wf \in {g \in StructuralGraphs : Len(g.Nodes) <= MaxFairNodes}
          /\ registry \in {NewRegistry, SmallRegistry}
          /\ state \in [FormData : {ValidForm(<<"Sydney">>)},
                        Condition : [Operator : {"greater_than"},
                                     Threshold : {2500}],
                        Variables : {NilMap, <<>>}]
    /\ initial = [wf |-> wf, state |-> state]

\* every handler invocation returns and the goroutine running Execute is
\* scheduled: a step that can be taken is eventually taken
FairSpec == FairInit /\ [][Next]_vars /\ WF_vars(Next)

TypeOK ==
    /\ pc \in {"idle", "call", "loop", "after", "returned"}
    /\ stepNum \in 0..maxSteps
    /\ Len(steps) = stepNum

----------------------------------------------------------------------------
(* Properties of Engine.Execute *)

Returned == pc = "returned"

HasStartNode == \E i \in 1..Len(wf.Nodes) : wf.Nodes[i].Type = "start"

NodeIDs == {wf.Nodes[i].ID : i \in 1..Len(wf.Nodes)}

ExceededError ==
    Error(<<"execution exceeded maximum of ", ToString(maxSteps),
            " steps (possible cycle)">>)

Names(e, word) == \E i \in 1..Len(e.text) : e.text[i] = word

\* the node whose handler was invoked last
LastNode == wf.Nodes[invoked[Len(invoked)]]

\* the outgoing edges of node that the engine's rule designates when the
\* branch token is token: for a condition node those carrying the token as
\* their handle, for any other node all of them; the first one is selected
Candidates(node, token) ==
    SelectSeq(wf.Edges,
              LAMBDA e : /\ e.Source = node.ID
                         /\ node.Type = "condition" => e.SourceHandle = token)

\* the run ended after a completed step whose selected edge leads to no node
SelectedEdgeDangles ==
    /\ Returned
    /\ invoked # <<>>
    /\ execErr = NoError
    /\ LET c == Candidates(LastNode,
                           AsString(MapGet(state.Variables, "conditionResult")))
       IN  c # <<>> /\ c[1].Target \notin NodeIDs

\* C1: when the handler of the k-th visited node returns an error, Execute
\* returns results and no error, the status is "failed", there are exactly k
\* steps, the first k-1 "completed" and the k-th "error" with a non-empty
\* error string, and the failing handler is the last one invoked.
C1_StepLevelFailure ==
    execErr # NoError =>
        /\ Returned
        /\ err = NoError
        /\ results # NoResults
        /\ results.Status = "failed"
        /\ results.Steps = steps
        /\ Len(steps) = Len(invoked)
        /\ \A i \in 1..(Len(steps) - 1) : steps[i].Status = "completed"
        /\ steps[Len(steps)].Status = "error"
        /\ steps[Len(steps)].Error # <<>>
        /\ steps[Len(steps)].Error = execErr.text

\* the lookup failed at the third node of the reference graph
C1_Witness ==
    /\ Returned
    /\ wf = ReferenceGraph
    /\ execErr # NoError
    /\ Len(steps) = 3
    /\ lookups = 1

\* C2: every call ends with either results or an error, never both and never
\* neither; and a definition without start node, a visited node of an
\* unregistered type, a selected edge whose target is no node of the graph and
\* an exceeded step bound each end the call with an error and no results.
C2_EngineLevelFailure ==
    Returned =>
        /\ (results = NoResults) <=> (err # NoError)
        /\ ~HasStartNode => err # NoError
        /\ (current # 0 /\ wf.Nodes[current].Type \notin DOMAIN registry)
              => err # NoError
        /\ SelectedEdgeDangles => err # NoError
        /\ (stepNum >= maxSteps /\ execErr = NoError /\ ~broke) => err # NoError

\* C3: on the reference graph, once the lookup has returned a temperature,
\* the run completes; its trace is start, form, integration, condition,
\* email, end when the condition holds of that temperature and start, form,
\* integration, condition, end when it does not.
C3_ReferenceGraphBranching ==
    (/\ Returned
     /\ wf = ReferenceGraph
     /\ Len(steps) >= 3
     /\ steps[3].Status = "completed")
    =>
        /\ err = NoError
        /\ results # NoResults
        /\ results.Status = "completed"
        /\ \A i \in 1..Len(results.Steps) : results.Steps[i].Status = "completed"
        /\ [i \in 1..Len(results.Steps) |-> results.Steps[i].NodeType]
             = IF evaluateCondition(steps[3].Output.temperature.n,
                                    state.Condition.Operator,
                                    state.Condition.Threshold)
               THEN <<"start", "form", "integration", "condition", "email", "end">>
               ELSE <<"start", "form", "integration", "condition", "end">>

\* a run of the reference graph that took the false branch
C3_Witness ==
    /\ Returned
    /\ wf = ReferenceGraph
    /\ results # NoResults
    /\ results.Status = "completed"
    /\ Len(results.Steps) = 5
    /\ state.Condition.Operator = "greater_than"

\* C4: the step-bound error is returned after exactly maxSteps handler
\* invocations, no handler is ever invoked beyond maxSteps, and a run on a
\* cycle whose handlers all succeed ends with that error and no results.
C4_CycleProtection ==
    /\ Len(invoked) <= maxSteps
    /\ err = ExceededError => Len(invoked) = maxSteps /\ Len(steps) = maxSteps
    /\ (Returned /\ wf \in CyclicGraphs)
          => err = ExceededError /\ results = NoResults

\* a run on a cycle that ended with the step-bound error
C4_Witness ==
    /\ Returned
    /\ wf \in CyclicGraphs
    /\ Len(wf.Nodes) = 2
    /\ err = ExceededError
    /\ Len(invoked) = maxSteps

\* C5: a run that left the loop at a node without next edge, at any step
\* number from 1 to maxSteps, returns results with status "completed" and
\* that many steps; the step-bound error is returned only by runs that
\* reached no such node.
C5_TerminalNodeCompletes ==
    (Returned /\ broke) =>
        /\ err = NoError
        /\ results # NoResults
        /\ results.Status = "completed"
        /\ Len(results.Steps) = stepNum

\* C6 as stated: when the traversal has reached a node of an unregistered
\* type, the call fails with an error naming the type, no handler was invoked
\* for the node and no step is recorded for it.
C6_UnregisteredTypeNamed ==
    (Returned /\ current # 0 /\ wf.Nodes[current].Type \notin DOMAIN registry)
    =>
        /\ results = NoResults
        /\ err # NoError
        /\ Names(err, wf.Nodes[current].Type)
        /\ \A i \in 1..Len(invoked) : invoked[i] # current
        /\ \A i \in 1..Len(steps) : steps[i].NodeType # wf.Nodes[current].Type

\* C6 amended: the error names the type when fewer than maxSteps steps were
\* executed before the node was reached; after maxSteps steps the call fails
\* with the step-bound error instead. In both cases there are no results, no
\* handler invocation and no step for the node.
C6_UnregisteredType ==
    (Returned /\ current # 0 /\ wf.Nodes[current].Type \notin DOMAIN registry)
    =>
        /\ results = NoResults
        /\ err # NoError
        /\ IF stepNum < maxSteps
           THEN /\ Names(err, wf.Nodes[current].Type)
                /\ Names(err, "no executor registered for node type ")
           ELSE err = ExceededError
        /\ \A i \in 1..Len(invoked) : invoked[i] # current
        /\ \A i \in 1..Len(steps) : steps[i].NodeType # wf.Nodes[current].Type

\* the fifth node of the webhook graph was reached after four completed steps
C6_Witness ==
    /\ Returned
    /\ wf = WebhookGraph
    /\ wf.Nodes[current].Type = "webhook"
    /\ Len(steps) = 4
    /\ Names(err, "webhook")

\* C7: on a definition without a node of type "start" the call fails at once
\* with the no-start-node error: no handler is invoked, no step is produced,
\* no results are returned.
C7_NoStartNode ==
    ~HasStartNode =>
        /\ pc \in {"call", "returned"}
        /\ invoked = <<>>
        /\ steps = <<>>
        /\ stepNum = 0
        /\ results = NoResults
        /\ Returned => err = Error(<<"workflow has no start node">>)

\* a definition with nodes, none of type start, was rejected
C7_Witness ==
    /\ Returned
    /\ ~HasStartNode
    /\ Len(wf.Nodes) = 2
    /\ err # NoError

\* C8: when the edge selected after a completed step has a target that is the
\* id of no node, the call returns an error and no results.
C8_DanglingEdgeFatal ==
    SelectedEdgeDangles => err # NoError /\ results = NoResults

\* C9: after a completed condition step the next executed node is the target
\* of an outgoing edge of the condition node whose handle is the branch token
\* the step produced; when no outgoing edge carries the token, the condition
\* step is the last one and the run returns status "completed".
C9_ConditionEdgeSelection ==
    \A i \in 1..Len(steps) :
        (steps[i].NodeType = "condition" /\ steps[i].Status = "completed") =>
            LET node == wf.Nodes[invoked[i]]
                token == IF steps[i].Output.conditionMet.b
                         THEN <<"true">> ELSE <<"false">>
                c == Candidates(node, token)
            IN  /\ i < Len(steps) =>
                      \E j \in 1..Len(c) : c[j].Target = wf.Nodes[invoked[i + 1]].ID
                /\ (c = <<>> /\ Returned) =>
                      /\ i = Len(steps)
                      /\ results # NoResults
                      /\ results.Status = "completed"

\* C10: in returned results the step at position i has StepNumber i and the
\* id and type of the i-th node whose handler was invoked, there is one step
\* per handler invocation, and there are between 1 and maxSteps steps.
C10_StepTraceShape ==
    results # NoResults =>
        /\ Len(results.Steps) = Len(invoked)
        /\ Len(results.Steps) >= 1
        /\ Len(results.Steps) <= maxSteps
        /\ \A i \in 1..Len(results.Steps) :
              /\ results.Steps[i].StepNumber = i
              /\ results.Steps[i].NodeID = wf.Nodes[invoked[i]].ID
              /\ results.Steps[i].NodeType = wf.Nodes[invoked[i]].Type

\* results with maxSteps steps were returned
C10_Witness ==
    /\ results # NoResults
    /\ Len(results.Steps) = maxSteps

\* one of the three terminal outcomes: results with status completed,
\* results with status failed, or an engine-level error
TerminalOutcome ==
    \/ /\ results # NoResults
       /\ results.Status \in {"completed", "failed"}
       /\ err = NoError
    \/ /\ results = NoResults
       /\ err # NoError

\* C11: when every step that can be taken is eventually taken, every Execute
\* call eventually has returned one of the three terminal outcomes, having
\* invoked handlers at most maxSteps times, on every graph, cyclic or not.
C11_Termination ==
    <>(Returned /\ TerminalOutcome /\ Len(invoked) <= maxSteps)

\* a run on the self loop that has returned after maxSteps invocations
C11_Witness ==
    /\ Returned
    /\ TerminalOutcome
    /\ wf \in CyclicGraphs
    /\ Len(wf.Nodes) = 1
    /\ Len(invoked) = maxSteps

\* C17: a node of type "end" is the last node a run executes, and a run whose
\* last executed node is of type "end" has returned results with status
\* "completed", whatever edges leave that node.
C17_StopsAtEndNode ==
    /\ \A i \in 1..Len(invoked) :
          wf.Nodes[invoked[i]].Type = "end" => i = Len(invoked)
    /\ (Returned /\ invoked # <<>> /\ LastNode.Type = "end")
          => results # NoResults /\ results.Status = "completed"

\* C18: at every point of a run, and after it whatever the outcome, the nodes
\* (ids, types, labels, metadata) and the edges of the definition are those
\* Execute was called with.
C18_DefinitionReadOnly ==
    /\ wf.Nodes = initial.wf.Nodes
    /\ wf.Edges = initial.wf.Edges

\* the run of the reference graph in which all six handlers were given their
\* node has returned
C18_Witness ==
    /\ Returned
    /\ wf = ReferenceGraph
    /\ Len(invoked) = 6
    /\ results # NoResults
    /\ results.Status = "completed"

\* a string of blanks only, the empty string included
Blank(s) == \A i \in 1..Len(s) : s[i] = " "

\* the field is present, a string, and not blank
GoodField(fd, field) ==
    /\ fd # NilMap
    /\ field \in DOMAIN fd
    /\ fd[field].kind = "string"
    /\ ~Blank(fd[field].s)

FirstBadField(fd) ==
    IF ~GoodField(fd, "name") THEN "name"
    ELSE IF ~GoodField(fd, "email") THEN "email"
    ELSE "city"

\* the form handler is invoked in this step
FormStep ==
    /\ pc = "loop"
    /\ stepNum' = stepNum + 1
    /\ wf.Nodes[current].Type = "form"

\* C19: a step of the form handler leaves the accumulator and the form values
\* as they were; it completes iff name, email and city are all present as
\* strings that are not blank, and otherwise it fails with an error that names
\* the first of name, email, city that is missing, no string or blank, and
\* names no other field.
C19_FormValidation ==
    [][FormStep =>
          LET fd == state.FormData
              step == steps'[Len(steps')]
              ok == \A f \in {"name", "email", "city"} : GoodField(fd, f)
          IN  /\ state' = state
              /\ ok <=> (step.Status = "completed" /\ execErr' = NoError)
              /\ ~ok => /\ step.Status = "error"
                        /\ execErr' = Error(step.Error)
                        /\ {f \in {"name", "email", "city"} :
                               Names(execErr', f)} = {FirstBadField(fd)}
                        /\ results' # NoResults
                        /\ results'.Status = "failed"]_vars

\* the form handler has failed on a form whose name is a padded string and
\* whose email is blank
C19_Witness ==
    /\ Returned
    /\ wf = FormGraph
    /\ state.FormData # NilMap
    /\ DOMAIN state.FormData = {"name", "email", "city"}
    /\ state.FormData["name"] = Str(<<" ", "a", " ">>)
    /\ state.FormData["email"] = Str(<<" ">>)
    /\ Len(steps) = 2
    /\ steps[2].Status = "error"
    /\ Names(execErr, "email")

\* the condition handler is invoked in this step
ConditionStep ==
    /\ pc = "loop"
    /\ stepNum' = stepNum + 1
    /\ wf.Nodes[current].Type = "condition"

\* state.Variables holds a temperature that is a number
NumericTemperature ==
    /\ "temperature" \in DOMAIN state.Variables
    /\ state.Variables["temperature"].kind \in {"float64", "int"}

\* C20: when the condition handler is invoked with an operator that is none
\* of the five and a numeric temperature, the step completes, its result is
\* false, the branch token stored is "false", and the engine selects the first
\* edge of that node whose handle is "false": it moves to its target, or, when
\* the target is not a node, fails naming the target.
C20_UnrecognizedOperatorIsFalse ==
    [][(ConditionStep /\ NumericTemperature
            /\ state.Condition.Operator \notin Operators) =>
          LET node == wf.Nodes[current]
              step == steps'[Len(steps')]
              c == Candidates(node, <<"false">>)
          IN  /\ step.Status = "completed"
              /\ execErr' = NoError
              /\ step.Output.conditionMet = BoolV(FALSE)
              /\ step.Output.conditionResult.m.result = BoolV(FALSE)
              /\ state'.Variables["conditionResult"] = Str(<<"false">>)
              /\ (c # <<>> /\ c[1].Target \in NodeIDs) =>
                    /\ pc' = "loop"
                    /\ wf.Nodes[current'].ID = c[1].Target
              /\ (c # <<>> /\ c[1].Target \notin NodeIDs \cup {""}) =>
                    /\ pc' = "returned"
                    /\ Names(err', c[1].Target)]_vars

\* the run of the reference graph with the empty operator has taken the
\* false branch: start, form, integration, condition, end
C20_Witness ==
    /\ Returned
    /\ wf = ReferenceGraph
    /\ state.Condition.Operator = ""
    /\ "conditionResult" \in DOMAIN state.Variables
    /\ state.Variables["conditionResult"] = Str(<<"false">>)
    /\ Len(invoked) = 5
    /\ LastNode.Type = "end"
    /\ results # NoResults
    /\ results.Status = "completed"

----------------------------------------------------------------------------
(* Properties of the HTTP handlers *)

\* the handler called this collaborator
Called(what) == \E i \in 1..Len(consulted) : consulted[i] = what

\* the response is an error whose message holds the word
MessageNames(word) ==
    /\ "message" \in DOMAIN resp
    /\ \E i \in 1..Len(resp.message) : resp.message[i] = word

\* C14: when HandleExecuteWorkflow has answered after calling Execute, the
\* answer is 200 carrying the results exactly when Execute returned results,
\* whatever their status, and 500 carrying no results exactly when Execute
\* returned an engine-level error; a 200 answer always carries the results
\* of an Execute call.
C14_BoundaryMapping ==
    (hpc = "done" /\ req.route = "execute") =>
        /\ Called("engine.Execute") =>
              /\ results # NoResults =>
                    /\ resp.status = 200
                    /\ resp.body = results
              /\ err # NoError =>
                    /\ resp.status = 500
                    /\ "body" \notin DOMAIN resp
              /\ results # NoResults \/ err # NoError
        /\ resp.status = 200 =>
              /\ Called("engine.Execute")
              /\ results # NoResults

\* a run that failed at a step was answered with 200 and the failed results
C14_Witness ==
    /\ hpc = "done"
    /\ req.route = "execute"
    /\ results # NoResults
    /\ results.Status = "failed"
    /\ resp.status = 200
    /\ resp.body = results

\* an engine-level error was answered with 500
C14_WitnessError ==
    /\ hpc = "done"
    /\ req.route = "execute"
    /\ Called("engine.Execute")
    /\ err # NoError
    /\ resp.status = 500

\* the form values pass the field checks of the boundary: the map is there and
\* name, email and city are strings other than ""
FormAccepted(fd) ==
    /\ fd # NilMap
    /\ \A f \in {"name", "email", "city"} :
          /\ f \in DOMAIN fd
          /\ fd[f].kind = "string"
          /\ fd[f].s # <<>>

\* the first of name, email, city that does not pass
FirstRejectedField(fd) ==
    LET passes(f) == f \in DOMAIN fd /\ fd[f].kind = "string" /\ fd[f].s # <<>>
    IN  IF ~passes("name") THEN "name"
        ELSE IF ~passes("email") THEN "email"
        ELSE "city"

\* C15 as stated: Execute is only ever called with one of the five operators,
\* and a decoded request with any other operator is answered 400 with a
\* message naming the operator, the engine not being called.
C15_OperatorNamedOnReject ==
    /\ pc # "idle" => state.Condition.Operator \in Operators
    /\ (hpc = "done" /\ req.route = "execute" /\ req.bodyOK
          /\ req.Condition.Operator \notin Operators) =>
            /\ resp.status = 400
            /\ MessageNames("operator")
            /\ ~Called("engine.Execute")

\* C15 amended: Execute is only ever called with one of the five operators; a
\* request with any other operator is answered 400 without the engine being
\* called, and the message names the operator when the form values pass the
\* field checks, and otherwise formData or the first field that does not pass.
C15_OperatorRejected ==
    /\ pc # "idle" => state.Condition.Operator \in Operators
    /\ (hpc = "done" /\ req.route = "execute" /\ req.bodyOK
          /\ req.Condition.Operator \notin Operators) =>
            /\ resp.status = 400
            /\ ~Called("engine.Execute")
            /\ pc = "idle"
            /\ IF FormAccepted(req.FormData)
               THEN resp.message = <<"operator", " is invalid">>
               ELSE /\ ~MessageNames("operator")
                    /\ MessageNames(IF req.FormData = NilMap THEN "formData"
                                    ELSE FirstRejectedField(req.FormData))

\* a request with accepted form values and the operator "bogus" was answered
\* 400 with the message naming the operator
C15_Witness ==
    /\ hpc = "done"
    /\ req.route = "execute"
    /\ req.bodyOK
    /\ req.Condition.Operator = "bogus"
    /\ FormAccepted(req.FormData)
    /\ resp.status = 400
    /\ MessageNames("operator")
    /\ pc = "idle"

\* C16: GET /workflows/{id} with an id that is no well-formed UUID is answered
\* 400 with the message "invalid workflow id".
C16_InvalidIdRejected ==
    (hpc = "done" /\ req.route = "get" /\ ~req.uuid) =>
        resp = [status |-> 400, message |-> <<"invalid workflow id">>]

----------------------------------------------------------------------------
(* Properties of concurrent Execute calls *)

\* the outcome of the loop of Execute run alone from node cur with state st,
\* the steps done so far, and k answers of the weather client used up: the
\* lookups are answered as they were answered to the running call
RECURSIVE SoloLoop(_, _, _, _)
SoloLoop(cur, st, done, k) ==
    LET node == wf.Nodes[cur]
        n == Len(done) + 1
    IN  IF Len(done) >= maxSteps
        THEN [results |-> NoResults, err |-> ExceededError]
        ELSE IF node.Type \notin DOMAIN registry
        THEN [results |-> NoResults,
              err |-> Error(<<"no executor registered for node type ",
                              node.Type>>)]
        ELSE
        LET r == Run(registry[node.Type], node, st,
                     IF k < Len(answers) THEN answers[k + 1] ELSE NoAnswer)
            all == Append(done, StepOf(node, n, r))
            next == NextNodeID(node, r.state)
            target == nodeMap(wf.Nodes, next, Len(wf.Nodes))
        IN  IF r.failed
            THEN [results |-> [Status |-> "failed", Steps |-> all],
                  err |-> NoError]
            ELSE IF next = ""
            THEN IF n >= maxSteps
                 THEN [results |-> NoResults, err |-> ExceededError]
                 ELSE [results |-> [Status |-> "completed", Steps |-> all],
                       err |-> NoError]
            ELSE IF target = 0
            THEN [results |-> NoResults,
                  err |-> Error(<<"edge target node ", next, " not found">>)]
            ELSE SoloLoop(target, r.state, all, IF r.lookup THEN k + 1 ELSE k)

\* what Execute returns for the definition and state the running call was
\* made with, when nothing else runs
SoloExecute ==
    LET s == findStartNode(initial.wf.Nodes, 1)
        st == IF initial.state.Variables = NilMap
              THEN [initial.state EXCEPT !.Variables = <<>>]
              ELSE initial.state
    IN  IF s = 0
        THEN [results |-> NoResults, err |-> Error(<<"workflow has no start node">>)]
        ELSE SoloLoop(s, st, <<>>, 0)

\* C12: two calls made with the same definition, the same form values and
\* condition input and an empty accumulator each, whose lookups were answered
\* the same way, have returned the same results (status and steps) or the
\* same engine-level error.
C12_Determinism ==
    (/\ parked # <<>>
     /\ Returned
     /\ parked[1].pc = "returned"
     /\ initial = parked[1].initial
     /\ answers = parked[1].answers) =>
        /\ results = parked[1].results
        /\ err = parked[1].err

\* two calls on the reference graph with the same input and the same answer
\* of the lookup have both completed
C12_Witness ==
    /\ parked # <<>>
    /\ Returned
    /\ parked[1].pc = "returned"
    /\ initial = parked[1].initial
    /\ initial.state.Variables = <<>>
    /\ wf = ReferenceGraph
    /\ answers # <<>>
    /\ answers = parked[1].answers
    /\ results # NoResults
    /\ results.Status = "completed"
    /\ results = parked[1].results

\* C13: however the steps of two calls on one engine interleave, a call that
\* has returned has returned what Execute returns for its definition, its
\* state and its lookup answers when run alone; its form values and condition
\* input are those it was called with; and the registry is the one the engine
\* was built with.
C13_RunIsolation ==
    /\ registry = NewRegistry
    /\ state.FormData = initial.state.FormData
    /\ state.Condition = initial.state.Condition
    /\ Returned =>
          /\ results = SoloExecute.results
          /\ err = SoloExecute.err

\* a call on the reference graph has returned its six steps while the other
\* call, on another input, is in the middle of its loop
C13_Witness ==
    /\ parked # <<>>
    /\ Returned
    /\ wf = ReferenceGraph
    /\ results # NoResults
    /\ Len(results.Steps) = 6
    /\ parked[1].pc = "loop"
    /\ parked[1].stepNum = 2
    /\ parked[1].initial # initial

----------------------------------------------------------------------------
(* Properties of the condition handler *)

Abs(x) == IF x < 0 THEN 0 - x ELSE x

\* h hundredths rounded to tenths: the tenth nearest to h, and of two equally
\* near tenths the one farther from zero
RoundTenth(h) ==
    CHOOSE r \in (0 - Abs(h) - 1)..(Abs(h) + 1) :
        /\ Abs(10 * r - h) <= 5
        /\ Abs(10 * r - h) = 5 => Abs(10 * r) > Abs(h)

\* the relation an operator stands for
Relation(op, a, b) ==
    CASE op = "greater_than" -> a > b
      [] op = "less_than" -> a < b
      [] op = "equals" -> a = b
      [] op = "greater_than_or_equal" -> a >= b
      [] op = "less_than_or_equal" -> a <= b

\* the condition steps that completed with one of the five operators and a
\* temperature the caller stored
ComparedSteps ==
    {i \in 1..Len(steps) :
        /\ steps[i].NodeType = "condition"
        /\ steps[i].Status = "completed"
        /\ state.Condition.Operator \in Operators
        /\ "temperature" \in DOMAIN initial.state.Variables}

Temperature == initial.state.Variables["temperature"].n
Threshold == state.Condition.Threshold

\* C21: for each of the five operators, the result of a condition step is the
\* operator's relation between the temperature rounded to one decimal and the
\* threshold rounded to one decimal, halves rounded away from zero.
C21_RoundedRelation ==
    \A i \in ComparedSteps :
        steps[i].Output.conditionMet.b
            = Relation(state.Condition.Operator,
                       RoundTenth(Temperature), RoundTenth(Threshold))

\* -0.15 equals -0.16: both are -0.2 after rounding
C21_Witness ==
    /\ Returned
    /\ wf = CondGraph
    /\ ComparedSteps # {}
    /\ state.Condition.Operator = "equals"
    /\ Temperature = -15
    /\ Threshold = -16
    /\ steps[2].Output.conditionMet.b
    /\ LastNode.ID = "hot"

\* C22 as stated: when temperature and threshold differ by more than 0.05 the
\* result of a condition step is the operator's relation between the two
\* values themselves.
C22_ExactBeyondHalfTenth ==
    \A i \in ComparedSteps :
        Abs(Temperature - Threshold) > 5 =>
            steps[i].Output.conditionMet.b
                = Relation(state.Condition.Operator, Temperature, Threshold)

\* C22 amended: when temperature and threshold differ by 0.1 or more the
\* result of a condition step is the operator's relation between the two
\* values themselves.
C22_ExactFromOneTenth ==
    \A i \in ComparedSteps :
        Abs(Temperature - Threshold) >= 10 =>
            steps[i].Output.conditionMet.b
                = Relation(state.Condition.Operator, Temperature, Threshold)

\* 0.05 is greater than -0.05: the two differ by exactly 0.1
C22_Witness ==
    /\ Returned
    /\ wf = CondGraph
    /\ ComparedSteps # {}
    /\ state.Condition.Operator = "greater_than"
    /\ Temperature = 5
    /\ Threshold = -5
    /\ steps[2].Output.conditionMet.b

\* C23: a step of the condition handler on an accumulator that holds no
\* temperature, or one that is no number, fails: the step is recorded with
\* status error, the accumulator is left as it was (no branch token is
\* written), and the run returns status failed with that step as its last.
C23_ConditionNeedsTemperature ==
    [][(ConditionStep /\ ~NumericTemperature) =>
          LET step == steps'[Len(steps')]
          IN  /\ step.NodeType = "condition"
              /\ step.Status = "error"
              /\ execErr' # NoError
              /\ (\/ Names(execErr', "temperature variable not set")
                  \/ Names(execErr', "temperature is not a number"))
              /\ state' = state
              /\ pc' = "returned"
              /\ err' = NoError
              /\ results' = [Status |-> "failed", Steps |-> steps']]_vars

\* a run started with an empty accumulator has failed at the condition step
C23_Witness ==
    /\ Returned
    /\ wf = CondGraph
    /\ initial.state.Variables = <<>>
    /\ Len(steps) = 2
    /\ steps[2].NodeType = "condition"
    /\ steps[2].Status = "error"
    /\ results # NoResults
    /\ results.Status = "failed"
    /\ "conditionResult" \notin DOMAIN state.Variables

----------------------------------------------------------------------------
(* Properties of the integration handler *)

\* the step being taken is the loop body on an integration node
IntegrationStep ==
    /\ pc = "loop"
    /\ stepNum' = stepNum + 1
    /\ wf.Nodes[current].Type = "integration"

\* the lookup was called and its last call failed
LastLookupFailed == answers # <<>> /\ ~answers[Len(answers)].ok

\* the city the handler reads from the form values: "" when there is none or
\* it is no string
FormCity ==
    IF "city" \in DOMAIN state.FormData /\ state.FormData["city"].kind = "string"
    THEN state.FormData["city"].s
    ELSE <<>>

\* the value of the current node's "options", the empty list when it is none
Options ==
    LET md == wf.Nodes[current].Metadata
    IN  IF md # NilMap /\ "options" \in DOMAIN md /\ md["options"].kind = "list"
        THEN md["options"].items
        ELSE <<>>

\* the city name of an option: "" when the option has none
CityName(opt) ==
    IF "city" \in DOMAIN opt.m /\ opt.m["city"].kind = "string"
    THEN opt.m["city"].s
    ELSE <<>>

\* the options whose city name is the form's city, whatever the case
Listed ==
    {k \in 1..Len(Options) :
        /\ Options[k].kind = "map"
        /\ EqualFold(CityName(Options[k]), FormCity)}

FirstListed == Options[CHOOSE k \in Listed : \A j \in Listed : k <= j].m

\* the option has a latitude and a longitude that are numbers
NumericCoordinates(m) ==
    /\ {"lat", "lon"} \subseteq DOMAIN m
    /\ m["lat"].kind \in {"float64", "float32", "int", "int64"}
    /\ m["lon"].kind \in {"float64", "float32", "int", "int64"}

\* C24: the weather lookup is called at most once in a step and only in a
\* step of an integration node; a call that failed is the last call of the
\* run, and the run has returned "failed" with that integration step as its
\* last step.
C24_NoRetry ==
    /\ [](/\ Len(calls) = Len(answers)
          /\ \A i \in 1..Len(answers) : ~answers[i].ok => i = Len(answers)
          /\ LastLookupFailed =>
                /\ pc = "returned"
                /\ results # NoResults
                /\ results.Status = "failed"
                /\ steps[Len(steps)].NodeType = "integration"
                /\ steps[Len(steps)].Status = "error")
    /\ [][/\ Len(calls') \in {Len(calls), Len(calls) + 1}
          /\ Len(calls') = Len(calls) + 1 => IntegrationStep
          /\ LastLookupFailed => calls' = calls]_vars

\* the first lookup succeeded, the second failed, and nothing ran after it
C24_Witness ==
    /\ pc = "returned"
    /\ Len(wf.Nodes) = 4
    /\ wf.Nodes[3].Type = "integration"
    /\ Len(answers) = 2
    /\ answers[1].ok
    /\ ~answers[2].ok
    /\ Len(steps) = 3
    /\ steps[3].NodeID = "second"

----------------------------------------------------------------------------
(* Properties of the registry *)

BuiltinTypes == {"start", "form", "integration", "condition", "email", "end"}

\* the engine is about to look the current node's type up in the registry
\* NewRegistry returned
BuiltinLookup ==
    /\ pc = "loop"
    /\ stepNum < maxSteps
    /\ registry # SmallRegistry

\* C25: with the registry NewRegistry returns, the lookup of the current
\* node's type hits exactly for start, form, integration, condition, email
\* and end: for these six a handler runs and a step of that type is recorded,
\* for every other type the lookup misses, no step is recorded and the call
\* returns the error naming the type.
C25_BuiltinKeys ==
    [][BuiltinLookup =>
         IF wf.Nodes[current].Type \in BuiltinTypes
         THEN /\ stepNum' = stepNum + 1
              /\ Len(steps') = Len(steps) + 1
              /\ steps'[Len(steps')].NodeType = wf.Nodes[current].Type
              /\ invoked' = Append(invoked, current)
         ELSE /\ steps' = steps
              /\ invoked' = invoked
              /\ pc' = "returned"
              /\ results' = NoResults
              /\ err' = Error(<<"no executor registered for node type ",
                                wf.Nodes[current].Type>>)]_vars

\* a run with a step of each of the six types
C25_Witness ==
    /\ Returned
    /\ registry # SmallRegistry
    /\ results # NoResults
    /\ results.Status = "completed"
    /\ {steps[i].NodeType : i \in 1..Len(steps)} = BuiltinTypes

----------------------------------------------------------------------------
(* Properties of the Repository *)

\* the rows of the sample workflow
SampleRows == {i \in 1..Len(db.rows) : db.rows[i].id = sampleWorkflowID}

\* the calls of Seed that returned no error
GoodSeeds == {i \in 1..Len(seeded) : seeded[i].err = NoError}

\* C26: every Seed called once the table exists succeeds; after the first
\* Seed that succeeded the table holds exactly one row for the sample
\* workflow id, and however many Seeds follow that row is the one the first
\* Seed wrote: the sample name, nodes and edges with the timestamps of that
\* first call.  A Seed that finds the row leaves every row as it was.
C26_SeedIdempotent ==
    /\ [](GoodSeeds # {} =>
            LET first == CHOOSE i \in GoodSeeds : \A j \in GoodSeeds : i <= j
            IN  /\ Cardinality(SampleRows) = 1
                /\ \A i \in SampleRows :
                      db.rows[i] =
                          [id |-> sampleWorkflowID,
                           name |-> <<"Weather Alert Workflow">>,
                           nodes |-> "sampleNodes", edges |-> "sampleEdges",
                           created_at |-> seeded[first].at,
                           updated_at |-> seeded[first].at])
    /\ [][(Len(seeded') = Len(seeded) + 1 /\ db.schema) =>
            /\ seeded'[Len(seeded')].err = NoError
            /\ SampleRows # {} => db'.rows = db.rows]_vars

\* Seed succeeded MaxSeeds times, the last time later than the first
C26_Witness ==
    /\ Len(seeded) = MaxSeeds
    /\ GoodSeeds = 1..MaxSeeds
    /\ seeded[MaxSeeds].at > seeded[1].at
    /\ Len(db.rows) = 1
    /\ db.rows[1].updated_at = seeded[1].at

----------------------------------------------------------------------------
(* Properties of the request validation *)

\* C27: a request that validateExecuteRequest accepted passes the form node:
\* once HandleExecuteWorkflow has called Execute, no step of a form node has
\* failed.
C27_AcceptedPassesForm ==
    Called("engine.Execute") =>
        \A i \in 1..Len(steps) :
            steps[i].NodeType = "form" => steps[i].Status = "completed"

----------------------------------------------------------------------------
(* Properties of the edge selection *)

\* the edges of the definition whose source is the current node, in the
\* order of the definition's edge list
Outgoing == SelectSeq(wf.Edges, LAMBDA e : e.Source = wf.Nodes[current].ID)

\* the step being taken completes at a node that is no condition node
PlainStepCompletes ==
    /\ pc = "loop"
    /\ stepNum' = stepNum + 1
    /\ execErr' = NoError
    /\ wf.Nodes[current].Type # "condition"

C29_IntegrationSuccess ==
    [][(IntegrationStep /\ Listed # {} /\ NumericCoordinates(FirstListed)) =>
         /\ calls' = Append(calls, [lat |-> FirstListed["lat"].n,
                                    lon |-> FirstListed["lon"].n])
         /\ Len(answers') = Len(answers) + 1
         /\ answers'[Len(answers')].ok =>
               /\ execErr' = NoError
               /\ steps'[Len(steps')].Status = "completed"
               /\ "temperature" \in DOMAIN state'.Variables
               /\ state'.Variables["temperature"]
                     = [kind |-> "float64", n |-> answers'[Len(answers')].n]]_vars

\* "sydney" found SYDNEY listed before Sydney: the lookup was called with the
\* coordinates of SYDNEY and its answer replaced the caller's temperature
C29_Witness ==
    /\ Len(steps) = 2
    /\ steps[2].NodeType = "integration"
    /\ steps[2].Status = "completed"
    /\ initial.state.FormData["city"] = Str(<<"sydney">>)
    /\ wf.Nodes[2].Metadata["options"].items[1].m["city"] = Str(<<"SYDNEY">>)
    /\ calls = <<[lat |-> 100, lon |-> 200]>>
    /\ initial.state.Variables = [temperature |-> F64(3000)]
    /\ state.Variables["temperature"] = F64(2504)

FormHasCity ==
    /\ state.FormData # NilMap
    /\ "city" \in DOMAIN state.FormData
    /\ state.FormData["city"].kind = "string"

\* the options that declare a city name, and declare the form's city
Declared ==
    {k \in 1..Len(Options) :
        /\ Options[k].kind = "map"
        /\ "city" \in DOMAIN Options[k].m
        /\ Options[k].m["city"].kind = "string"
        /\ FormHasCity
        /\ EqualFold(Options[k].m["city"].s, state.FormData["city"].s)}

\* C31: a step of the integration handler calls the lookup only when the
\* form values hold a string city that some option declares as its city name,
\* whatever the case; when the form's city is absent or no string the step
\* fails with the city-not-found error and the lookup is not called.
C31_LookupNeedsDeclaredCity ==
    [][IntegrationStep =>
         /\ calls' # calls => Declared # {}
         /\ ~FormHasCity =>
               /\ calls' = calls
               /\ execErr' = Error(<<"city ", " not found in available options">>)]_vars

----------------------------------------------------------------------------
(* Properties of the accumulator *)

\* the steps of the given node type that completed
CompletedSteps(type) ==
    {i \in 1..Len(steps) :
        steps[i].NodeType = type /\ steps[i].Status = "completed"}

\* the last of a non-empty set of step numbers
Latest(S) == CHOOSE i \in S : \A j \in S : j <= i

\* C32: once a condition step has completed, the accumulator's
\* "conditionResult" is the string "true" when the conditionMet output of the
\* last completed condition step is true and the string "false" when it is
\* false: whatever token the caller or an earlier condition step had stored
\* is overwritten, and nothing else writes the entry.
C32_BranchToken ==
    CompletedSteps("condition") # {} =>
        /\ "conditionResult" \in DOMAIN state.Variables
        /\ state.Variables["conditionResult"] =
              [kind |-> "string",
               s |-> IF steps[Latest(CompletedSteps("condition"))]
                        .Output.conditionMet.b
                     THEN <<"true">> ELSE <<"false">>]

\* the caller's token was "maybe", the first condition step was met and the
\* second was not: the token is "false"
C32_Witness ==
    /\ Returned
    /\ wf = TwoLookupGraph
    /\ initial.state.Variables = [conditionResult |-> Str(<<"maybe">>)]
    /\ Cardinality(CompletedSteps("condition")) = 2
    /\ steps[3].Output.conditionMet.b
    /\ ~steps[5].Output.conditionMet.b
    /\ state.Variables["conditionResult"] = Str(<<"false">>)

\* what the lookup returned to the last integration step that completed
\* before step i; such a step made the lookup call of its number
LookupBefore(i) ==
    answers[Cardinality({j \in CompletedSteps("integration") : j < i})].n

\* C33: in a run started with an empty accumulator every completed condition
\* step comes after a completed integration step and compared the value the
\* lookup returned to the most recent one, and every email step that comes
\* after a completed integration step put that value, with one decimal, where
\* its template says {{temperature}}.
C33_TemperatureFlow ==
    initial.state.Variables = <<>> =>
        /\ \A i \in CompletedSteps("condition") :
              /\ \E j \in CompletedSteps("integration") : j < i
              /\ steps[i].Output.conditionResult.m.temperature
                    = [kind |-> "float64", n |-> LookupBefore(i)]
        /\ \A i \in CompletedSteps("email") :
              (\E j \in CompletedSteps("integration") : j < i) =>
                  steps[i].Output.emailDraft.m.body.s
                     = <<"Alert for ", "Sydney", "! Temp: ">>
                       \o Fmt1(LookupBefore(i)) \o <<"C!">>

\* the first lookup returned 30.00 and the second 25.04: the second condition
\* step compared 25.04 and the email says 25.0
C33_Witness ==
    /\ Returned
    /\ wf = TwoLookupGraph
    /\ initial.state.Variables = <<>>
    /\ answers = <<[ok |-> TRUE, n |-> 3000, error |-> <<>>],
                   [ok |-> TRUE, n |-> 2504, error |-> <<>>]>>
    /\ steps[3].Output.conditionResult.m.temperature = F64(3000)
    /\ steps[5].Output.conditionResult.m.temperature = F64(2504)
    /\ steps[6].Output.emailDraft.m.body.s
          = <<"Alert for ", "Sydney", "! Temp: ", "25", ".", "0", "C!">>

\* the keys of a map[string]any, none for the nil map
Keys(m) == IF m = [nil |-> TRUE] THEN {} ELSE DOMAIN m

\* the keys whose entry the step being taken adds or changes
Written ==
    {k \in Keys(state'.Variables) :
        k \notin Keys(state.Variables) \/ state'.Variables[k] # state.Variables[k]}

\* the step being taken is a completed step of a node of the given type
StepCompletes(type) ==
    /\ pc = "loop"
    /\ stepNum' = stepNum + 1
    /\ execErr' = NoError
    /\ wf.Nodes[current].Type = type

\* C34: no step of a run changes the caller's form values or condition input
\* or removes an entry of the accumulator; the only entries ever written are
\* "temperature", by an integration step that completes, and
\* "conditionResult", by a condition step that completes.
C34_AccumulatorFrame ==
    [][/\ state'.FormData = state.FormData
       /\ state'.Condition = state.Condition
       /\ Keys(state.Variables) \subseteq Keys(state'.Variables)
       /\ Written \subseteq {"temperature", "conditionResult"}
       /\ "temperature" \in Written => StepCompletes("integration")
       /\ "conditionResult" \in Written => StepCompletes("condition")]_vars

\* the reference run: the caller's temperature was replaced and a token
\* written, the form values and the condition input are the caller's
C34_Witness ==
    /\ Returned
    /\ wf = ReferenceGraph
    /\ Len(steps) = 6
    /\ initial.state.Variables = [temperature |-> F64(3000)]
    /\ Keys(state.Variables) = {"temperature", "conditionResult"}
    /\ state.Variables["temperature"] = F64(2000)
    /\ state.FormData = initial.state.FormData
    /\ state.Condition = initial.state.Condition

----------------------------------------------------------------------------
(* Properties of the results *)

\* the step's output has a "message" that is a string and is not empty
HasMessage(step) ==
    /\ step.Output # [nil |-> TRUE]
    /\ "message" \in DOMAIN step.Output
    /\ step.Output["message"].kind = "string"
    /\ step.Output["message"].s # <<>>

\* the error text is part of the message
Carries(message, text) ==
    \E k \in 0..(Len(message) - Len(text)) :
        SubSeq(message, k + 1, k + Len(text)) = text

\* C35: in the results Execute returns with the built-in registry the status
\* is "failed" exactly when the last step has status "error" and exactly when
\* some step has; with status "completed" every step is "completed"; every
\* step's output has a non-empty message, which for an erroring step carries
\* the step's error text.
C35_ResultsConsistent ==
    (results # NoResults /\ registry # SmallRegistry) =>
        LET s == results.Steps
            bad == {i \in 1..Len(s) : s[i].Status = "error"}
        IN  /\ s # <<>>
            /\ results.Status \in {"completed", "failed"}
            /\ results.Status = "failed" <=> s[Len(s)].Status = "error"
            /\ results.Status = "failed" <=> bad # {}
            /\ results.Status = "completed" =>
                  \A i \in 1..Len(s) : s[i].Status = "completed"
            /\ \A i \in 1..Len(s) :
                  /\ HasMessage(s[i])
                  /\ i \in bad =>
                        /\ s[i].Error # <<>>
                        /\ Carries(s[i].Output["message"].s, s[i].Error)

\* the lookup failed at the third step of the reference run
C35_Witness ==
    /\ results # NoResults
    /\ wf = ReferenceGraph
    /\ results.Status = "failed"
    /\ Len(results.Steps) = 3
    /\ results.Steps[3].Status = "error"
    /\ results.Steps[3].Output["message"].s
          = <<"Error: ", "weather API error: ", "API timeout">>

----------------------------------------------------------------------------
(* Properties of the order of request handling *)

HandlingOrder == <<"decode", "validate", "repo.Get", "engine.Execute">>

\* C36: HandleExecuteWorkflow decodes, then validates, then asks the
\* repository, then calls Execute, and stops at the first that fails: a body
\* that does not decode or does not validate is answered 400 with neither the
\* repository nor the engine consulted; a definition that is absent is
\* answered 404 and a failing repository 500, the engine not being called;
\* Execute is only ever called on the definition the repository returned.
C36_HandlingOrder ==
    req.route = "execute" =>
        /\ consulted = SubSeq(HandlingOrder, 1, Len(consulted))
        /\ (~Called("engine.Execute")) => pc = "idle"
        /\ Called("engine.Execute") =>
              /\ req.bodyOK
              /\ validateExecuteRequest(req) = <<>>
              /\ repo.answer = "found"
              /\ initial.wf = repo.workflow
        /\ hpc = "done" =>
              /\ ~req.bodyOK =>
                    /\ resp.status = 400
                    /\ consulted = <<"decode">>
              /\ (req.bodyOK /\ validateExecuteRequest(req) # <<>>) =>
                    /\ resp.status = 400
                    /\ consulted = <<"decode", "validate">>
              /\ (req.bodyOK /\ validateExecuteRequest(req) = <<>>
                    /\ repo.answer # "found") =>
                    /\ resp.status = IF repo.answer = "absent" THEN 404 ELSE 500
                    /\ consulted = <<"decode", "validate", "repo.Get">>

\* a request without a name for a definition that is absent: 400, and the
\* repository was not asked
C36_Witness ==
    /\ hpc = "done"
    /\ req.route = "execute"
    /\ req.bodyOK
    /\ req.FormData # NilMap
    /\ "name" \notin DOMAIN req.FormData
    /\ repo.answer = "absent"
    /\ resp.status = 400
    /\ ~Called("repo.Get")

----------------------------------------------------------------------------
(* Properties of the entry node *)

\* the nodes of type start, by their place in the node list
StartNodes == {i \in 1..Len(wf.Nodes) : wf.Nodes[i].Type = "start"}

\* C37: the first node Execute runs is the first node of type start in the
\* order of the node list, however many there are; every node run after it,
\* a further start node included, is the target of an edge from the node run
\* just before it.
C37_FirstStartNode ==
    [][Len(invoked') = Len(invoked) + 1 =>
         IF invoked = <<>>
         THEN /\ invoked'[1] \in StartNodes
              /\ \A i \in StartNodes : invoked'[1] <= i
         ELSE \E j \in 1..Len(wf.Edges) :
                 /\ wf.Edges[j].Source = wf.Nodes[invoked[Len(invoked)]].ID
                 /\ wf.Edges[j].Target = wf.Nodes[invoked'[Len(invoked')]].ID]_vars

\* x, s1, s2, e with the edges s2 -> x and s1 -> e: the run was s1, e
C37_Witness ==
    /\ Returned
    /\ Len(wf.Nodes) = 4
    /\ StartNodes = {2, 3}
    /\ invoked = <<2, 4>>
    /\ results # NoResults
    /\ results.Status = "completed"

----------------------------------------------------------------------------
(* Properties of the email handler *)

\* the step being taken is the loop body on an email node
EmailStep ==
    /\ pc = "loop"
    /\ stepNum' = stepNum + 1
    /\ wf.Nodes[current].Type = "email"

\* the text the current node's template has under key: "" when the metadata,
\* the template or the entry is missing or of another type
TemplateText(key) ==
    LET md == wf.Nodes[current].Metadata
        tm == IF md # [nil |-> TRUE] /\ "emailTemplate" \in DOMAIN md
              THEN md["emailTemplate"] ELSE [kind |-> "nil"]
    IN  IF tm.kind = "map" /\ key \in DOMAIN tm.m /\ tm.m[key].kind = "string"
        THEN tm.m[key].s
        ELSE <<>>

\* the temperature the accumulator holds as a float64, 0 when it holds none
StoredFloat ==
    IF /\ state.Variables # [nil |-> TRUE]
       /\ "temperature" \in DOMAIN state.Variables
       /\ state.Variables["temperature"].kind = "float64"
    THEN state.Variables["temperature"].n
    ELSE 0

\* the form value under key when it is a string, "" otherwise
FormText(key) ==
    IF /\ state.FormData # [nil |-> TRUE]
       /\ key \in DOMAIN state.FormData
       /\ state.FormData[key].kind = "string"
    THEN state.FormData[key].s
    ELSE <<>>

\* the text with every {{temperature}} replaced by the digits, every
\* {{name}} by the form's name and every {{city}} by the form's city
Filled(text, digits) ==
    LET RECURSIVE sub(_)
        sub(s) == IF s = <<>> THEN <<>>
                  ELSE (IF Head(s) = "{{temperature}}" THEN digits
                        ELSE IF Head(s) = "{{name}}" THEN FormText("name")
                        ELSE IF Head(s) = "{{city}}" THEN FormText("city")
                        ELSE <<Head(s)>>)
                       \o sub(Tail(s))
    IN  sub(text)

\* C38: a step of the email handler always completes, whatever the node's
\* metadata, the form values and the accumulator hold: it returns no error,
\* the run goes on, and the state is left as it was; where the template says
\* {{temperature}} the draft has the stored float64 temperature with one
\* decimal, and 0.0 when no float64 temperature is stored.
C38_EmailNeverFails ==
    /\ [][EmailStep =>
            /\ execErr' = NoError
            /\ steps'[Len(steps')].Status = "completed"
            /\ steps'[Len(steps')].Error = <<>>
            /\ state' = state
            /\ pc' = "loop"
            /\ \A key \in {"subject", "body"} :
                  steps'[Len(steps')].Output.emailDraft.m[key].s
                     = Filled(TemplateText(key), Fmt1(StoredFloat))]_vars
    /\ [](\A i \in 1..Len(steps) :
             steps[i].NodeType = "email" => steps[i].Status = "completed")

\* the accumulator held the int 25 and the form values were nil: the email
\* step completed and its body begins with 0.0
C38_Witness ==
    /\ Returned
    /\ Len(steps) = 3
    /\ steps[2].NodeType = "email"
    /\ steps[2].Status = "completed"
    /\ initial.state.FormData = NilMap
    /\ initial.state.Variables = [temperature |-> IntV(2500)]
    /\ steps[2].Output.emailDraft.m.body.s = <<"0", ".", "0", " in ">>
    /\ steps[2].Output.emailDraft.m.subject.s = <<>>

====
